---------------------------- MODULE Spec2Model ----------------------------
(***************************************************************************)
(* Resilience layer of SenseForge (src/resilience.py): the CircuitBreaker  *)
(* state machine under cooperative (event loop) concurrency, and           *)
(* retry_with_backoff.                                                     *)
(*                                                                         *)
(* Time is counted in whole seconds.  Delays of retry_with_backoff are     *)
(* counted in tenths of a second so that the jitter factor, a multiple of  *)
(* one tenth here, stays an integer.                                       *)
(***************************************************************************)
EXTENDS Integers, Sequences, FiniteSets, TLC

\* ------------------------------------------------------------------ bounds
MaxThreshold == 2      \* failure_threshold ranges over 1..MaxThreshold
MaxTimeout == 2        \* recovery_timeout ranges over 1..MaxTimeout (seconds)
MaxCalls == 4          \* CircuitBreaker.call invocations in one behaviour
MaxTick == 2           \* one-second clock steps taken within one day
MaxDays == 1           \* whole days the clock may jump
MaxAttempts == 4       \* retry_with_backoff's max_attempts ranges over 0..MaxAttempts
MaxRate == 2           \* RateLimiter.rate ranges over 1..MaxRate
MaxTokenTicks == 2     \* RateLimiter.per / rate ranges over 1..MaxTokenTicks ticks
MaxAcquires == 4       \* RateLimiter.acquire calls in one behaviour
MaxStartTick == 3      \* the latest tick at which an acquire call begins
MaxLedgerTick == 1     \* the ledger's clock runs over 0..MaxLedgerTick
MaxLines == 2          \* lines appended to predictions.jsonl in one behaviour
MaxUpdates == 2        \* lines appended to prediction_updates.jsonl
MaxLookback == 1       \* lookback_hours and validation delay range over 0..MaxLookback ticks
MaxLogCalls == 6       \* calls made directly on the reasoning logger in one behaviour
MaxLogTick == 1        \* the reasoning logger's clock runs over 0..MaxLogTick
MaxKeyedRate == 2      \* security RateLimiter: rate is 1..MaxKeyedRate
MaxKeyedTokenTicks == 2 \* security RateLimiter: per / rate is 1..MaxKeyedTokenTicks s
MaxKeyedTick == 3      \* security RateLimiter: time.time() runs to MaxKeyedTick
MaxRetries == 2        \* AmbientLLMClient: max_retries is 0..MaxRetries
MaxRequests == 7       \* AmbientLLMClient: _make_request calls in one behaviour
MaxAmbientTicks == 3   \* AmbientLLMClient: clock steps in one behaviour

\* ------------------------------------------------------- program constants
SecondsPerDay == 86400 \* timedelta.seconds is the remainder modulo one day
NoTime == -1           \* last_failure_time = None

Tasks == {"t1", "t2"}  \* coroutines calling the one breaker on one event loop
Values == {"v1", "v2"} \* results the wrapped action may return

CLOSED == "closed"
OPEN == "open"
HALF_OPEN == "half_open"
CircuitState == {CLOSED, OPEN, HALF_OPEN}

\* Exception types the wrapped action may raise.  asyncio.CancelledError
\* derives from BaseException, not from Exception.
ErrKinds == {"Exception", "TimeoutError", "CancelledError"}

\* isinstance(e, base) for an exception of type k.
IsInstance(k, base) ==
    \/ k = base
    \/ base = "BaseException"
    \/ base = "Exception" /\ k \in {"Exception", "TimeoutError", "ValueError", "TypeError"}

\* Arguments retry_with_backoff is run with.  Delays are whole seconds.
InitialDelays == {1, 2}
MaxDelays == {3, 60}
ExponentialBases == {2, 3}
ExceptionTuples == {{"Exception"}, {"TimeoutError"}}

\* Values of random.random(), a float of [0, 1), in tenths.
RandomTenths == {0, 4, 9}

\* The default of CircuitBreaker.__init__'s expected_exception.
expected_exception == "Exception"

VARIABLES
    failure_threshold,  \* CircuitBreaker.failure_threshold
    recovery_timeout,   \* CircuitBreaker.recovery_timeout
    failure_count,      \* CircuitBreaker.failure_count
    last_failure_time,  \* CircuitBreaker.last_failure_time (NoTime: None)
    state,              \* CircuitBreaker.state
    now,                \* datetime.now(), in seconds
    pc,                 \* per task: "idle", or "awaiting" inside `await func()`
    admitted,           \* per task: breaker state in which its action was invoked
    result,             \* per task: how its last call ended
    stats,              \* history: counts of what the calls did
    max_attempts,       \* retry_with_backoff: argument
    initial_delay,      \* retry_with_backoff: argument
    max_delay,          \* retry_with_backoff: argument
    exponential_base,   \* retry_with_backoff: argument
    jitter,             \* retry_with_backoff: argument
    exceptions,         \* retry_with_backoff: argument, the types it catches
    attempt,            \* retry_with_backoff: the loop variable
    last_exception,     \* retry_with_backoff: local, NoException for None
    r_pc,               \* retry_with_backoff: "off", "try", "sleeping", "done"
    r_result,           \* retry_with_backoff: what the caller got
    r_trace,            \* history: func invocations and sleeps, in order
    rate,               \* RateLimiter.rate
    per,                \* RateLimiter.per, in ticks
    allowance,          \* RateLimiter.allowance, in units of rate / per token
    last_check,         \* RateLimiter.last_check, in ticks
    clock,              \* time.time(), in ticks
    l_pc,               \* per task: "idle", or "sleeping" inside acquire
    wake_at,            \* per task: the tick its asyncio.sleep ends
    slot,               \* per task: index in acquires of its call in progress
    acquires,           \* history: the acquire calls, in the order they began
    predictions,        \* PredictionService.predictions
    pred_file,          \* the lines of predictions.jsonl
    updates_file,       \* the lines of prediction_updates.jsonl
    m_predictions,      \* MetricsTracker.predictions
    numpy_available,    \* metrics.NUMPY_AVAILABLE
    p_now,              \* datetime.now() of the ledger, in ticks
    last_op,            \* history: the last ledger operation and how it ended
    current_chain,      \* ProofOfReasoningLogger.current_chain: <<>> or <<chain>>
    chain_files,        \* the files of data/reasoning_logs, by chain id
    g_now,              \* datetime.now() of the reasoning logger, in ticks
    log_calls,          \* history: per request, the calls it made on the logger
    rq_pc,              \* per request using the logger directly: "new", "started", "finished"
    q_pc,               \* per /query request: where handle_query stands
    q_response,         \* per /query request: the response handle_query returned
    q_chain_id,         \* history: per /query request, the id start_chain gave it
    k_rate,             \* security RateLimiter.rate
    k_per,              \* security RateLimiter.per, in ticks
    allowances,         \* security RateLimiter.allowances, in units of rate/per
    k_last_check,       \* security RateLimiter.last_check
    k_clock,            \* time.time() of the security limiter, in ticks
    k_first_use,        \* history: per key, the tick of its first is_allowed call
    k_allowed,          \* history: per key, the number of allowed calls
    k_last,             \* history: the last is_allowed call and what it returned
    max_retries,        \* AmbientLLMClient.max_retries
    a_pc,               \* per task in _make_request: "idle", "calling", "sleeping", "loop_ended"
    a_attempts          \* per task: upstream attempts of its current or last request

breakerVars == <<failure_threshold, recovery_timeout, failure_count,
                 last_failure_time, state, now, pc, admitted, result, stats>>

retryVars == <<max_attempts, initial_delay, max_delay, exponential_base, jitter,
               exceptions, attempt, last_exception, r_pc, r_result, r_trace>>

limiterVars == <<rate, per, allowance, last_check, clock, l_pc, wake_at, slot, acquires>>

ledgerVars == <<predictions, pred_file, updates_file, m_predictions,
                numpy_available, p_now, last_op>>

loggerVars == <<current_chain, chain_files, g_now, log_calls, rq_pc,
                q_pc, q_response, q_chain_id>>

keyedVars == <<k_rate, k_per, allowances, k_last_check, k_clock,
               k_first_use, k_allowed, k_last>>

ambientVars == <<max_retries, a_pc, a_attempts>>

\* The reasoning logger, the keyed limiter and the LLM client.
extVars == <<loggerVars, keyedVars, ambientVars>>

\* What neither the breaker nor retry_with_backoff touches.
restVars == <<limiterVars, ledgerVars, extVars>>

vars == <<breakerVars, retryVars, limiterVars, ledgerVars, extVars>>

\* How a call ended for its caller: status and val are what the caller got,
\* origin says who produced it, produced is what the wrapped action itself
\* returned or raised ("none" when it was not invoked).
NoResult == [status |-> "none", val |-> "none", origin |-> "none", produced |-> "none"]
Returned(v, a) == [status |-> "returned", val |-> v, origin |-> "action", produced |-> a]
Raised(k, who, a) == [status |-> "raised", val |-> k, origin |-> who, produced |-> a]

\* The error CircuitBreaker.call raises for a call it does not attempt:
\* raise Exception(f"Circuit breaker {self.name} is OPEN")
CircuitOpenError == Raised("Exception", "breaker", "none")

NoStats == [invoked |-> 0, succeeded |-> 0, failed |-> 0, uncaught |-> 0, rejected |-> 0]

Calls == stats.invoked + stats.rejected

\* CircuitBreaker.__init__
BreakerInit ==
    /\ failure_threshold \in 1..MaxThreshold
    /\ recovery_timeout \in 1..MaxTimeout
    /\ failure_count = 0
    /\ last_failure_time = NoTime
    /\ state = CLOSED
    /\ now = 0
    /\ pc = [t \in Tasks |-> "idle"]
    /\ admitted = [t \in Tasks |-> "none"]
    /\ result = [t \in Tasks |-> NoResult]
    /\ stats = NoStats

\* timedelta.seconds of a non-negative timedelta of d seconds.
TimedeltaSeconds(d) == d % SecondsPerDay

\* CircuitBreaker._should_attempt_reset
ShouldAttemptReset ==
    IF last_failure_time = NoTime
    THEN TRUE
    ELSE TimedeltaSeconds(now - last_failure_time) >= recovery_timeout

\* _on_success forgetting to reset the counter.
OnSuccess_KeepsCount ==
    /\ state' = CLOSED
    /\ UNCHANGED <<failure_count, last_failure_time>>

\* _on_success closing the breaker only from HALF_OPEN.
OnSuccess_ClosesOnlyProbe ==
    /\ failure_count' = 0
    /\ state' = IF state = HALF_OPEN THEN CLOSED ELSE state
    /\ UNCHANGED last_failure_time

\* CircuitBreaker._on_success
OnSuccess ==
    /\ failure_count' = 0
    /\ state' = CLOSED
    /\ UNCHANGED last_failure_time

\* _on_failure comparing with > instead of >=.
OnFailure_StrictThreshold ==
    /\ failure_count' = failure_count + 1
    /\ last_failure_time' = now
    /\ state' = IF failure_count + 1 > failure_threshold THEN OPEN ELSE state

\* CircuitBreaker._on_failure
OnFailure ==
    /\ failure_count' = failure_count + 1
    /\ last_failure_time' = now
    /\ state' = IF failure_count + 1 >= failure_threshold THEN OPEN ELSE state

\* A rejection that restarts the recovery timeout.
CallRejected_RestartsTimeout(t) ==
    /\ pc[t] = "idle"
    /\ Calls < MaxCalls
    /\ state = OPEN
    /\ ~ShouldAttemptReset
    /\ last_failure_time' = now
    /\ result' = [result EXCEPT ![t] = CircuitOpenError]
    /\ stats' = [stats EXCEPT !.rejected = @ + 1]
    /\ UNCHANGED <<failure_threshold, recovery_timeout, failure_count,
                   state, now, pc, admitted>>
    /\ UNCHANGED retryVars
    /\ UNCHANGED restVars

\* CircuitBreaker.call, lines 52-57, the branch that raises: the breaker is
\* OPEN and the recovery timeout has not elapsed.
CallRejected(t) ==
    /\ pc[t] = "idle"
    /\ Calls < MaxCalls
    /\ state = OPEN
    /\ ~ShouldAttemptReset
    /\ result' = [result EXCEPT ![t] = CircuitOpenError]
    /\ stats' = [stats EXCEPT !.rejected = @ + 1]
    /\ UNCHANGED <<failure_threshold, recovery_timeout, failure_count,
                   last_failure_time, state, now, pc, admitted>>
    /\ UNCHANGED retryVars
    /\ UNCHANGED restVars

\* CircuitBreaker.call, lines 52-60, up to the await: an OPEN breaker whose
\* timeout elapsed becomes HALF_OPEN; the wrapped action is invoked.
CallAdmitted(t) ==
    /\ pc[t] = "idle"
    /\ Calls < MaxCalls
    /\ state = OPEN => ShouldAttemptReset
    /\ state' = IF state = OPEN THEN HALF_OPEN ELSE state
    /\ pc' = [pc EXCEPT ![t] = "awaiting"]
    /\ admitted' = [admitted EXCEPT ![t] = state']
    /\ result' = [result EXCEPT ![t] = NoResult]
    /\ stats' = [stats EXCEPT !.invoked = @ + 1]
    /\ UNCHANGED <<failure_threshold, recovery_timeout, failure_count,
                   last_failure_time, now>>
    /\ UNCHANGED retryVars
    /\ UNCHANGED restVars

\* CircuitBreaker.call, lines 60-62: the awaited action returns v.
ActionReturns(t, v) ==
    /\ pc[t] = "awaiting"
    /\ OnSuccess
    /\ pc' = [pc EXCEPT ![t] = "idle"]
    /\ result' = [result EXCEPT ![t] = Returned(v, v)]
    /\ stats' = [stats EXCEPT !.succeeded = @ + 1]
    /\ UNCHANGED <<failure_threshold, recovery_timeout, now, admitted>>
    /\ UNCHANGED retryVars
    /\ UNCHANGED restVars

\* CircuitBreaker.call, lines 63-65: the awaited action raises an exception
\* of type k.  Only an instance of expected_exception reaches _on_failure;
\* any other exception leaves the coroutine with no bookkeeping.
ActionRaises(t, k) ==
    /\ pc[t] = "awaiting"
    /\ IF IsInstance(k, expected_exception)
       THEN /\ OnFailure
            /\ stats' = [stats EXCEPT !.failed = @ + 1]
       ELSE /\ UNCHANGED <<failure_count, last_failure_time, state>>
            /\ stats' = [stats EXCEPT !.uncaught = @ + 1]
    /\ pc' = [pc EXCEPT ![t] = "idle"]
    /\ result' = [result EXCEPT ![t] = Raised(k, "action", k)]
    /\ UNCHANGED <<failure_threshold, recovery_timeout, now, admitted>>
    /\ UNCHANGED retryVars
    /\ UNCHANGED restVars

\* The wall clock advances by one second.
Tick ==
    /\ now % SecondsPerDay < MaxTick
    /\ now' = now + 1
    /\ UNCHANGED <<failure_threshold, recovery_timeout, failure_count,
                   last_failure_time, state, pc, admitted, result, stats>>
    /\ UNCHANGED retryVars
    /\ UNCHANGED restVars

\* The wall clock advances by one day.
DayPasses ==
    /\ now \div SecondsPerDay < MaxDays
    /\ now' = now + SecondsPerDay
    /\ UNCHANGED <<failure_threshold, recovery_timeout, failure_count,
                   last_failure_time, state, pc, admitted, result, stats>>
    /\ UNCHANGED retryVars
    /\ UNCHANGED restVars


\* ======================================================================
\* retry_with_backoff
\* ======================================================================

NoException == [type |-> "None", id |-> 0]

\* No retry_with_backoff is running.
RetryOff ==
    /\ max_attempts = 0
    /\ initial_delay = 1
    /\ max_delay = 60
    /\ exponential_base = 2
    /\ jitter = FALSE
    /\ exceptions = {"Exception"}
    /\ attempt = 0
    /\ last_exception = NoException
    /\ r_pc = "off"
    /\ r_result = [status |-> "none"]
    /\ r_trace = <<>>

\* retry_with_backoff is entered: its arguments, and lines 128-132.
RetryInit ==
    /\ max_attempts \in 0..MaxAttempts
    /\ initial_delay \in InitialDelays
    /\ max_delay \in MaxDelays
    /\ exponential_base \in ExponentialBases
    /\ jitter \in BOOLEAN
    /\ exceptions \in ExceptionTuples
    /\ attempt = 0
    /\ last_exception = NoException
    /\ r_pc = "try"
    /\ r_result = [status |-> "none"]
    /\ r_trace = <<>>

\* The breaker as constructed, with no call made on it.
BreakerOff ==
    /\ failure_threshold = 1
    /\ recovery_timeout = 1
    /\ failure_count = 0
    /\ last_failure_time = NoTime
    /\ state = CLOSED
    /\ now = 0
    /\ pc = [t \in Tasks |-> "idle"]
    /\ admitted = [t \in Tasks |-> "none"]
    /\ result = [t \in Tasks |-> NoResult]
    /\ stats = NoStats

RECURSIVE Pow(_, _)
\* b ** n
Pow(b, n) == IF n = 0 THEN 1 ELSE b * Pow(b, n - 1)

Min(a, b) == IF a <= b THEN a ELSE b

\* Line 143: min(initial_delay * (exponential_base ** attempt), max_delay),
\* in seconds.
Backoff(i) == Min(initial_delay * Pow(exponential_base, i), max_delay)

\* Lines 143-147: the delay slept after failed attempt i, in tenths of a
\* second; rnd is random.random() in tenths.
Delay(i, rnd) == IF jitter THEN Backoff(i) * (5 + rnd) ELSE Backoff(i) * 10

\* `except exceptions as e` catches an exception of type k.
Catches(k) == \E base \in exceptions : IsInstance(k, base)

\* Line 138, giving up one attempt early.
IsLastAttempt_OneEarly == attempt >= max_attempts - 2

\* Line 138, never recognising the last attempt.
IsLastAttempt_Never == FALSE

\* Line 138: attempt == max_attempts - 1
IsLastAttempt == attempt = max_attempts - 1

\* The number of the func invocation now being made: the identity of the
\* exception object it raises.
CallId == attempt + 1

CallEvent(out) == [ev |-> "call", out |-> out, d |-> 0]
SleepEvent(d) == [ev |-> "sleep", out |-> "none", d |-> d]

\* Lines 132-134: func is awaited and returns v, which is returned.
RetryFuncReturns(v) ==
    /\ r_pc = "try"
    /\ attempt < max_attempts
    /\ r_result' = [status |-> "returned", val |-> v]
    /\ r_trace' = Append(r_trace, CallEvent(v))
    /\ r_pc' = "done"
    /\ UNCHANGED <<max_attempts, initial_delay, max_delay, exponential_base, jitter,
                   exceptions, attempt, last_exception>>
    /\ UNCHANGED breakerVars
    /\ UNCHANGED restVars

\* Lines 132-135: func raises an exception the except clause does not
\* catch; it leaves retry_with_backoff.
RetryFuncRaisesUncaught(k) ==
    /\ r_pc = "try"
    /\ attempt < max_attempts
    /\ ~Catches(k)
    /\ r_result' = [status |-> "raised", exc |-> [type |-> k, id |-> CallId]]
    /\ r_trace' = Append(r_trace, CallEvent(k))
    /\ r_pc' = "done"
    /\ UNCHANGED <<max_attempts, initial_delay, max_delay, exponential_base, jitter,
                   exceptions, attempt, last_exception>>
    /\ UNCHANGED breakerVars
    /\ UNCHANGED restVars

\* Lines 135-140: func raises a caught exception on the last attempt,
\* which is raised again.
RetryFuncRaisesLast(k) ==
    /\ r_pc = "try"
    /\ attempt < max_attempts
    /\ Catches(k)
    /\ IsLastAttempt
    /\ last_exception' = [type |-> k, id |-> CallId]
    /\ r_result' = [status |-> "raised", exc |-> last_exception']
    /\ r_trace' = Append(r_trace, CallEvent(k))
    /\ r_pc' = "done"
    /\ UNCHANGED <<max_attempts, initial_delay, max_delay, exponential_base, jitter,
                   exceptions, attempt>>
    /\ UNCHANGED breakerVars
    /\ UNCHANGED restVars

\* Lines 135-154: func raises a caught exception on an earlier attempt;
\* the delay is computed and asyncio.sleep(delay) begins.
RetryFuncRaisesSleep(k, rnd) ==
    /\ r_pc = "try"
    /\ attempt < max_attempts
    /\ Catches(k)
    /\ ~IsLastAttempt
    /\ last_exception' = [type |-> k, id |-> CallId]
    /\ r_trace' = r_trace \o <<CallEvent(k), SleepEvent(Delay(attempt, rnd))>>
    /\ r_pc' = "sleeping"
    /\ UNCHANGED <<max_attempts, initial_delay, max_delay, exponential_base, jitter,
                   exceptions, attempt, r_result>>
    /\ UNCHANGED breakerVars
    /\ UNCHANGED restVars

\* Lines 154, 132: the sleep ends and the loop takes its next value.
RetryWakes ==
    /\ r_pc = "sleeping"
    /\ attempt' = attempt + 1
    /\ r_pc' = "try"
    /\ UNCHANGED <<max_attempts, initial_delay, max_delay, exponential_base, jitter,
                   exceptions, last_exception, r_result, r_trace>>
    /\ UNCHANGED breakerVars
    /\ UNCHANGED restVars

\* Line 156: the loop ended without returning or raising; last_exception is
\* raised (raising None is a TypeError).
RetryLoopEnds ==
    /\ r_pc = "try"
    /\ attempt >= max_attempts
    /\ r_result' = IF last_exception = NoException
                   THEN [status |-> "raised", exc |-> [type |-> "TypeError", id |-> 0]]
                   ELSE [status |-> "raised", exc |-> last_exception]
    /\ r_pc' = "done"
    /\ UNCHANGED <<max_attempts, initial_delay, max_delay, exponential_base, jitter,
                   exceptions, attempt, last_exception, r_trace>>
    /\ UNCHANGED breakerVars
    /\ UNCHANGED restVars

\* ======================================================================
\* RateLimiter (src/resilience.py)
\*
\* Time is counted in ticks chosen so that per / rate, the time one token
\* takes to replenish, is a whole number of ticks.  allowance is kept in
\* units of rate / per token: One is 1.0 token, Cap is self.rate tokens, and
\* `time_passed * (rate / per)` tokens are time_passed units.
\* ======================================================================

NotReturned == -1      \* an acquire call that has not returned yet

\* 1.0 token, in allowance units.
One == per \div rate

\* self.rate tokens, in allowance units.
Cap == rate * One

\* Lines 198-201 without the cap.
Replenished_NoCap(elapsed) == allowance + elapsed

\* Lines 198-201: allowance += time_passed * (rate / per), capped at rate.
Replenished(elapsed) == Min(allowance + elapsed, Cap)

\* Line 203 with <= for <.
NeedsSleep_AtOne(a) == a <= One

\* Line 203: self.allowance < 1.0
NeedsSleep(a) == a < One

\* Line 204: (1.0 - self.allowance) * (self.per / self.rate), in ticks.
SleepTime(a) == One - a

\* No RateLimiter is in use.
LimiterOff ==
    /\ rate = 1
    /\ per = 1
    /\ allowance = 1
    /\ last_check = 0
    /\ clock = 0
    /\ l_pc = [t \in Tasks |-> "idle"]
    /\ wake_at = [t \in Tasks |-> 0]
    /\ slot = [t \in Tasks |-> 0]
    /\ acquires = <<>>

\* RateLimiter.__init__, at tick 0.
LimiterInit ==
    /\ rate \in 1..MaxRate
    /\ \E q \in 1..MaxTokenTicks : per = rate * q
    /\ allowance = rate * (per \div rate)
    /\ last_check = 0
    /\ clock = 0
    /\ l_pc = [t \in Tasks |-> "idle"]
    /\ wake_at = [t \in Tasks |-> 0]
    /\ slot = [t \in Tasks |-> 0]
    /\ acquires = <<>>

\* An acquire call may begin.
MayAcquire(t) ==
    /\ l_pc[t] = "idle"
    /\ Len(acquires) < MaxAcquires
    /\ clock <= MaxStartTick

\* RateLimiter.acquire, lines 194-203 and 207-208: a token is available;
\* it is taken and the call returns without yielding.
AcquireTakesToken(t) ==
    /\ MayAcquire(t)
    /\ LET a == Replenished(clock - last_check) IN
       /\ ~NeedsSleep(a)
       /\ allowance' = a - One
    /\ last_check' = clock
    /\ acquires' = Append(acquires,
                          [task |-> t, start |-> clock, sleep |-> 0, done |-> clock])
    /\ UNCHANGED <<rate, per, clock, l_pc, wake_at, slot>>
    /\ UNCHANGED <<breakerVars, retryVars, ledgerVars, extVars>>

\* RateLimiter.acquire, lines 194-205: no token is available; last_check
\* and allowance are updated and asyncio.sleep(sleep_time) begins.
AcquireSleeps(t) ==
    /\ MayAcquire(t)
    /\ LET a == Replenished(clock - last_check) IN
       /\ NeedsSleep(a)
       /\ allowance' = a
       /\ wake_at' = [wake_at EXCEPT ![t] = clock + SleepTime(a)]
       /\ acquires' = Append(acquires,
                             [task |-> t, start |-> clock, sleep |-> SleepTime(a),
                              done |-> NotReturned])
    /\ last_check' = clock
    /\ l_pc' = [l_pc EXCEPT ![t] = "sleeping"]
    /\ slot' = [slot EXCEPT ![t] = Len(acquires) + 1]
    /\ UNCHANGED <<rate, per, clock>>
    /\ UNCHANGED <<breakerVars, retryVars, ledgerVars, extVars>>

\* A sleeper that checks the allowance again, without replenishing it,
\* before it returns.
AcquireWakes_Rechecks(t) ==
    /\ l_pc[t] = "sleeping"
    /\ clock >= wake_at[t]
    /\ IF NeedsSleep(allowance)
       THEN UNCHANGED <<allowance, l_pc, acquires>>
       ELSE /\ allowance' = 0
            /\ l_pc' = [l_pc EXCEPT ![t] = "idle"]
            /\ acquires' = [acquires EXCEPT ![slot[t]].done = clock]
    /\ UNCHANGED <<rate, per, last_check, clock, wake_at, slot>>
    /\ UNCHANGED <<breakerVars, retryVars, ledgerVars, extVars>>

\* RateLimiter.acquire, lines 205-206: the sleep has ended; allowance is
\* set to 0.0 and the call returns.
AcquireWakes(t) ==
    /\ l_pc[t] = "sleeping"
    /\ clock >= wake_at[t]
    /\ allowance' = 0
    /\ l_pc' = [l_pc EXCEPT ![t] = "idle"]
    /\ acquires' = [acquires EXCEPT ![slot[t]].done = clock]
    /\ UNCHANGED <<rate, per, last_check, clock, wake_at, slot>>
    /\ UNCHANGED <<breakerVars, retryVars, ledgerVars, extVars>>

\* time.time() advances by one tick.  No sleep lasts longer than one token's
\* replenishment, so every sleep has ended MaxTokenTicks after the last
\* tick at which a call may begin.
LimiterTick ==
    /\ clock < MaxStartTick + MaxTokenTicks
    /\ clock' = clock + 1
    /\ UNCHANGED <<rate, per, allowance, last_check, l_pc, wake_at, slot, acquires>>
    /\ UNCHANGED <<breakerVars, retryVars, ledgerVars, extVars>>

\* ======================================================================
\* PredictionService (src/prediction_service.py) and MetricsTracker
\* (src/metrics.py)
\* ======================================================================

NoOp == [op |-> "none"]

NoValue == -1          \* actual_liquidity = None; 'actual': None

\* Inputs of create_prediction, update_actual and MetricsTracker.update_actual.
Predicteds == {100, 200}
Actuals == {0, 110, 190}

\* The metadata argument: None (the default), or a dict with string keys
\* and values, as a set of <<key, value>> items.
MetadataArgs ==
    { [given |-> FALSE, items |-> {}],
      [given |-> TRUE, items |-> {<<"source", "agent">>}] }

\* metadata or {}
OrEmptyDict(m) == IF m.given /\ m.items # {} THEN m.items ELSE {}

\* datetime.isoformat() and datetime.fromisoformat(): the text form of a
\* clock reading and its parse.
IsoFormat(t) == <<"iso", t>>
FromIsoFormat(text) == text[2]

\* f"pred_{datetime.now().strftime('%Y%m%d_%H%M%S_%f')}": the id is the
\* clock reading, so two readings of one instant give one id.
PredictionId(t) == <<"pred", t>>

PredictionIds == {PredictionId(t) : t \in 0..MaxLedgerTick}

\* A Prediction object.  Its fields state, confidence, risk_level and
\* reasoning are stored and written like metadata and are left out.
Prediction(id, ts, pl, al, md) ==
    [id |-> id, timestamp |-> ts, predicted_liquidity |-> pl,
     actual_liquidity |-> al, metadata |-> md]

\* Prediction.to_dict followed by json.dumps: one line of predictions.jsonl.
ToDict(pr) ==
    [json |-> [id |-> pr.id, timestamp |-> IsoFormat(pr.timestamp),
               predicted_liquidity |-> pr.predicted_liquidity,
               actual_liquidity |-> pr.actual_liquidity,
               metadata |-> pr.metadata]]

\* json.loads followed by Prediction.from_dict.
FromDict(line) ==
    Prediction(line.json.id, FromIsoFormat(line.json.timestamp),
               line.json.predicted_liquidity, line.json.actual_liquidity,
               line.json.metadata)

\* load_predictions: the lines of predictions.jsonl in order, a later line
\* replacing an earlier one of the same id.  prediction_updates.jsonl is
\* not read.
RECURSIVE LoadPredictions(_)
LoadPredictions(lines) ==
    IF lines = <<>>
    THEN <<>>
    ELSE LET n == Len(lines)
             pr == FromDict(lines[n])
         IN (pr.id :> pr) @@ LoadPredictions(SubSeq(lines, 1, n - 1))

\* ------------------------------------------------- exact rational numbers
Abs(x) == IF x < 0 THEN -x ELSE x

RECURSIVE Gcd(_, _)
Gcd(a, b) == IF b = 0 THEN a ELSE Gcd(b, a % b)

\* num / den in lowest terms, den > 0.
Frac(num, den) ==
    LET g == Gcd(Abs(num), den)
    IN [num |-> num \div g, den |-> den \div g]

FracAdd(x, y) == Frac(x.num * y.den + y.num * x.den, x.den * y.den)
FracSub(x, y) == Frac(x.num * y.den - y.num * x.den, x.den * y.den)
FracDivInt(x, n) == Frac(x.num, x.den * n)

\* A statistic: None, a number, or the float inf / nan.
NoStat == [kind |-> "None", num |-> 0, den |-> 1]
Number(x) == [kind |-> "number", num |-> x.num, den |-> x.den]
FloatInf == [kind |-> "inf", num |-> 0, den |-> 1]
FloatNan == [kind |-> "nan", num |-> 0, den |-> 1]

\* ------------------------------------------------------ calculate_accuracy
\* The entries calculate_accuracy(lookback_hours) takes: inside the window
\* and validated.
Recent(lookback) ==
    {id \in DOMAIN predictions :
        /\ predictions[id].timestamp >= p_now - lookback
        /\ predictions[id].actual_liquidity # NoValue}

AbsError(pr) == Abs(pr.predicted_liquidity - pr.actual_liquidity)

\* sum(errors)
RECURSIVE SumErrors(_)
SumErrors(S) ==
    IF S = {}
    THEN 0
    ELSE LET id == CHOOSE x \in S : TRUE
         IN AbsError(predictions[id]) + SumErrors(S \ {id})

\* sum(error_pcts), each term abs(p - a) / a * 100 with a # 0.
RECURSIVE SumErrorPcts(_)
SumErrorPcts(S) ==
    IF S = {}
    THEN Frac(0, 1)
    ELSE LET id == CHOOSE x \in S : TRUE
             pr == predictions[id]
         IN FracAdd(Frac(AbsError(pr) * 100, pr.actual_liquidity),
                    SumErrorPcts(S \ {id}))

\* What calculate_accuracy(lookback_hours) does: its return value, or the
\* ZeroDivisionError of line 206 when an entry it takes has actual 0.
CalculateAccuracyResult(lookback) ==
    LET recent == Recent(lookback)
        n == Cardinality(recent)
    IN IF recent = {}
       THEN [op |-> "calculate_accuracy", lookback |-> lookback,
             recent |-> recent, outcome |-> "returned", err |-> "",
             count |-> 0, accuracy |-> NoStat,
             avg_error |-> NoStat, avg_error_pct |-> NoStat]
       ELSE IF \E id \in recent : predictions[id].actual_liquidity = 0
       THEN [op |-> "calculate_accuracy", lookback |-> lookback,
             recent |-> recent, outcome |-> "raised", err |-> "ZeroDivisionError",
             count |-> 0, accuracy |-> NoStat,
             avg_error |-> NoStat, avg_error_pct |-> NoStat]
       ELSE LET avg_error_pct == FracDivInt(SumErrorPcts(recent), n)
            IN [op |-> "calculate_accuracy", lookback |-> lookback,
                recent |-> recent, outcome |-> "returned", err |-> "",
                count |-> n,
                accuracy |-> Number(FracSub(Frac(100, 1), avg_error_pct)),
                avg_error |-> Number(Frac(SumErrors(recent), n)),
                avg_error_pct |-> Number(avg_error_pct)]

\* ------------------------------------------- MetricsTracker.get_accuracy_stats
\* Indices (from 1) of the records with 'actual' set.
Completed == {i \in 1..Len(m_predictions) : m_predictions[i].actual # NoValue}

MError(i) == Abs(m_predictions[i].predicted - m_predictions[i].actual)

\* np.sum(np.abs(predicted - actual)) over the records of S.
RECURSIVE SumMErrors(_)
SumMErrors(S) ==
    IF S = {}
    THEN 0
    ELSE LET i == CHOOSE x \in S : TRUE
         IN MError(i) + SumMErrors(S \ {i})

\* np.sum(actual) over the records of S.
RECURSIVE SumMActuals(_)
SumMActuals(S) ==
    IF S = {}
    THEN 0
    ELSE LET i == CHOOSE x \in S : TRUE
         IN m_predictions[i].actual + SumMActuals(S \ {i})

\* The numpy branch: mae = mean(|predicted - actual|) and
\* accuracy = 100 - (mae / mean(actual) * 100).  numpy float division by
\* zero does not raise: x / 0 is inf for x # 0 and nan for x = 0.
NumpyAccuracy ==
    LET n == Cardinality(Completed)
        se == SumMErrors(Completed)
        sa == SumMActuals(Completed)
    IN [count |-> n,
        mae |-> Number(Frac(se, n)),
        accuracy |-> IF sa = 0
                     THEN IF se = 0 THEN FloatNan ELSE FloatInf
                     ELSE Number(FracSub(Frac(100, 1), Frac(se * 100, sa)))]

GetAccuracyStatsResult ==
    IF Completed = {} \/ ~numpy_available
    THEN [op |-> "get_accuracy_stats", outcome |-> "returned",
          count |-> Cardinality(Completed),
          accuracy |-> NoStat, mae |-> NoStat]
    ELSE [op |-> "get_accuracy_stats", outcome |-> "returned",
          count |-> NumpyAccuracy.count,
          accuracy |-> NumpyAccuracy.accuracy, mae |-> NumpyAccuracy.mae]

\* ------------------------------------------------------------- the ledger
\* No ledger is in use.
LedgerOff ==
    /\ predictions = <<>>
    /\ pred_file = <<>>
    /\ updates_file = <<>>
    /\ m_predictions = <<>>
    /\ numpy_available = FALSE
    /\ p_now = 0
    /\ last_op = NoOp

\* PredictionService() over an empty data directory, and the metrics
\* singleton with no metrics.json; numpy is installed or not.
LedgerInit ==
    /\ predictions = <<>>
    /\ pred_file = <<>>
    /\ updates_file = <<>>
    /\ m_predictions = <<>>
    /\ numpy_available \in BOOLEAN
    /\ p_now = 0
    /\ last_op = NoOp

\* create_prediction(state, predicted_liquidity, metadata=md).
\* metrics.track_prediction appends its record and rewrites metrics.json,
\* which therefore always holds m_predictions.
CreatePrediction(pl, md) ==
    /\ Len(pred_file) < MaxLines
    /\ LET prediction_id == PredictionId(p_now)
           prediction == Prediction(prediction_id, p_now, pl, NoValue, OrEmptyDict(md))
       IN /\ predictions' = (prediction_id :> prediction) @@ predictions
          /\ pred_file' = Append(pred_file, ToDict(prediction))
          /\ m_predictions' =
                 Append(m_predictions,
                        [timestamp |-> IsoFormat(prediction.timestamp),
                         predicted |-> pl, actual |-> NoValue,
                         id |-> prediction_id])
          /\ last_op' = [op |-> "create_prediction", id |-> prediction_id,
                         outcome |-> "returned", err |-> ""]
    /\ UNCHANGED <<updates_file, numpy_available, p_now>>
    /\ UNCHANGED <<breakerVars, retryVars, limiterVars, extVars>>

\* The entry of id with its actual value set.
WithActual(id, a) ==
    [predictions EXCEPT ![id].actual_liquidity = a]

\* update_actual(prediction_id, actual_liquidity).  An unknown id is
\* logged and the call returns.  For a known id the entry is changed
\* first; actual 0 then raises ZeroDivisionError at line 144, before
\* _save_update.
UpdateActual(id, a) ==
    /\ Len(updates_file) < MaxUpdates
    /\ IF id \notin DOMAIN predictions
       THEN /\ last_op' = [op |-> "update_actual", id |-> id, actual |-> a,
                           known |-> FALSE, outcome |-> "returned", err |-> ""]
            /\ UNCHANGED <<predictions, updates_file>>
       ELSE IF a = 0
       THEN /\ predictions' = WithActual(id, a)
            /\ last_op' = [op |-> "update_actual", id |-> id, actual |-> a,
                           known |-> TRUE, outcome |-> "raised",
                           err |-> "ZeroDivisionError"]
            /\ UNCHANGED updates_file
       ELSE /\ predictions' = WithActual(id, a)
            /\ updates_file' =
                   Append(updates_file,
                          [json |-> [prediction_id |-> id, actual_liquidity |-> a,
                                     updated_at |-> IsoFormat(p_now)]])
            /\ last_op' = [op |-> "update_actual", id |-> id, actual |-> a,
                           known |-> TRUE, outcome |-> "returned", err |-> ""]
    /\ UNCHANGED <<pred_file, m_predictions, numpy_available, p_now>>
    /\ UNCHANGED <<breakerVars, retryVars, limiterVars, extVars>>

\* The entries one pass of auto_validate_predictions(delay) selects.
Unvalidated(delay) ==
    {id \in DOMAIN predictions :
        /\ predictions[id].actual_liquidity = NoValue
        /\ predictions[id].timestamp < p_now - delay}

\* One pass of the loop of auto_validate_predictions.  The module does
\* not import random, so line 242 raises NameError for the first selected
\* entry; the except clause of line 250 logs it and the pass ends without
\* a call of update_actual.
AutoValidatePass(delay) ==
    /\ last_op' = [op |-> "auto_validate", delay |-> delay,
                   selected |-> Cardinality(Unvalidated(delay)),
                   outcome |-> "returned",
                   err |-> IF Unvalidated(delay) = {} THEN "" ELSE "NameError"]
    /\ UNCHANGED <<predictions, pred_file, updates_file, m_predictions,
                   numpy_available, p_now>>
    /\ UNCHANGED <<breakerVars, retryVars, limiterVars, extVars>>

\* A new PredictionService over the same storage path.
Reload ==
    /\ predictions' = LoadPredictions(pred_file)
    /\ last_op' = [op |-> "reload", outcome |-> "returned", err |-> ""]
    /\ UNCHANGED <<pred_file, updates_file, m_predictions, numpy_available, p_now>>
    /\ UNCHANGED <<breakerVars, retryVars, limiterVars, extVars>>

\* calculate_accuracy(lookback_hours).
CalculateAccuracy(lookback) ==
    /\ last_op' = CalculateAccuracyResult(lookback)
    /\ UNCHANGED <<predictions, pred_file, updates_file, m_predictions,
                   numpy_available, p_now>>
    /\ UNCHANGED <<breakerVars, retryVars, limiterVars, extVars>>

\* MetricsTracker.update_actual(index, actual), index counted from 0.
MetricsUpdateActual(index, a) ==
    /\ IF 0 <= index /\ index < Len(m_predictions)
       THEN m_predictions' = [m_predictions EXCEPT ![index + 1].actual = a]
       ELSE UNCHANGED m_predictions
    /\ last_op' = [op |-> "metrics_update_actual", index |-> index,
                   outcome |-> "returned", err |-> ""]
    /\ UNCHANGED <<predictions, pred_file, updates_file, numpy_available, p_now>>
    /\ UNCHANGED <<breakerVars, retryVars, limiterVars, extVars>>

\* MetricsTracker.get_accuracy_stats().
GetAccuracyStats ==
    /\ last_op' = GetAccuracyStatsResult
    /\ UNCHANGED <<predictions, pred_file, updates_file, m_predictions,
                   numpy_available, p_now>>
    /\ UNCHANGED <<breakerVars, retryVars, limiterVars, extVars>>

\* datetime.now() advances.
LedgerTick ==
    /\ p_now < MaxLedgerTick
    /\ p_now' = p_now + 1
    /\ UNCHANGED <<predictions, pred_file, updates_file, m_predictions,
                   numpy_available, last_op>>
    /\ UNCHANGED <<breakerVars, retryVars, limiterVars, extVars>>

\* ======================================================================
\* ProofOfReasoningLogger (src/reasoning_logger.py) and handle_query
\* (src/server.py)
\* ======================================================================

Requests == {"A", "B"}  \* the requests sharing the one logger

\* What a request passes: its query, the text of its steps, its decision.
QueryOf(r) == IF r = "A" THEN "query A" ELSE "query B"
ReasoningOf(r) == IF r = "A" THEN "step of A" ELSE "step of B"
DecisionOf(r) == IF r = "A" THEN "decision A" ELSE "decision B"

Components == {"Analyst", "Brain"}
Durations == {42}
EmptyDecision == "{}"

\* f"chain_{datetime.now().strftime('%Y%m%d_%H%M%S_%f')}": the id is the
\* clock reading.
ChainId(t) == <<"chain", t>>
NoChainId == ChainId(NoTime)

\* ReasoningChain(chain_id, timestamp, query, steps=[], final_decision={},
\* total_duration_ms=0.0) as start_chain builds it.
NewChain(q, t) ==
    [chain_id |-> ChainId(t), timestamp |-> t, query |-> q, steps |-> <<>>,
     final_decision |-> EmptyDecision, total_duration_ms |-> 0]

\* log_step numbering the steps from 0.
WithStep_FromZero(chain, component, reasoning) ==
    [chain EXCEPT !.steps =
        Append(@, [step_number |-> Len(@), component |-> component,
                   reasoning |-> reasoning])]

\* log_step on an active chain: the step is numbered len(steps) + 1 and
\* appended.  Of the step's data only component and reasoning are kept.
WithStep(chain, component, reasoning) ==
    [chain EXCEPT !.steps =
        Append(@, [step_number |-> Len(@) + 1, component |-> component,
                   reasoning |-> reasoning])]

\* finalize_chain leaving final_decision as start_chain set it.
Finalized_NoDecision(chain, d, ms) ==
    [chain EXCEPT !.total_duration_ms = ms]

\* finalize_chain, lines 143-144.
Finalized(chain, d, ms) ==
    [chain EXCEPT !.final_decision = d, !.total_duration_ms = ms]

\* ReasoningChain.to_dict
ChainToDict(chain) ==
    [chain_id |-> chain.chain_id, timestamp |-> IsoFormat(chain.timestamp),
     query |-> chain.query, steps |-> chain.steps,
     final_decision |-> chain.final_decision,
     total_duration_ms |-> chain.total_duration_ms,
     verisense_compliant |-> TRUE, schema_version |-> "1.0"]

\* How the write of finalize_chain ends: it succeeds, open() raises OSError
\* (nothing is written), or json.dump raises TypeError part-way (the file
\* is left with the beginning of the record).
WriteOutcomes == {"ok", "OSError", "TypeError"}

\* log_step opening a chain of its own when none is active.
LogStepOn_StartsChain(cc, component, reasoning) ==
    IF cc = <<>>
    THEN <<WithStep(NewChain("", 0), component, reasoning)>>
    ELSE <<WithStep(cc[1], component, reasoning)>>

\* current_chain after log_step.
LogStepOn(cc, component, reasoning) ==
    IF cc = <<>> THEN cc ELSE <<WithStep(cc[1], component, reasoning)>>

\* current_chain after finalize_chain: cleared at line 159, which a write
\* that raises does not reach.
FinalizeCc(cc, d, ms, how) ==
    IF cc = <<>>
    THEN cc
    ELSE IF how = "ok" THEN <<>> ELSE <<Finalized(cc[1], d, ms)>>

\* The directory after finalize_chain: open(filepath, 'w') replaces the
\* file named by the chain id.
FinalizeFiles(files, cc, d, ms, how) ==
    IF cc = <<>> \/ how = "OSError"
    THEN files
    ELSE (cc[1].chain_id :>
             [valid |-> (how = "ok"),
              json |-> ChainToDict(Finalized(cc[1], d, ms))]) @@ files

\* finalize_chain has no try: the error of the write leaves it.
FinalizeRaises(cc, how) == cc # <<>> /\ how # "ok"

\* The calls of a request that has called nothing: the id start_chain
\* returned to it, the log_step calls it made after its start_chain (the
\* chain each went to and the component), the chain its finalize_chain
\* wrote and how that call ended, and the number of its other calls.
NoCalls ==
    [id |-> NoChainId, logged |-> <<>>, written |-> NoChainId,
     outcome |-> "none", strays |-> 0]

ActiveId(cc) == IF cc = <<>> THEN NoChainId ELSE cc[1].chain_id

\* The number of calls request r has made on the logger.
CallsOf(r) ==
    Len(log_calls[r].logged) + log_calls[r].strays
    + (IF rq_pc[r] = "new" THEN 0 ELSE 1)
    + (IF rq_pc[r] = "finished" THEN 1 ELSE 0)

CallsMade == CallsOf("A") + CallsOf("B")

\* No response was returned yet.
NoResponse == [status |-> 0, error_type |-> "none", reached |-> "none"]

\* No logger is in use.
LoggerOff ==
    /\ current_chain = <<>>
    /\ chain_files = <<>>
    /\ g_now = 0
    /\ log_calls = [r \in Requests |-> NoCalls]
    /\ rq_pc = [r \in Requests |-> "new"]
    /\ q_pc = [r \in Requests |-> "idle"]
    /\ q_response = [r \in Requests |-> NoResponse]
    /\ q_chain_id = [r \in Requests |-> NoChainId]

\* ProofOfReasoningLogger() over an empty directory.
LoggerInit == LoggerOff

\* start_chain(query) called by request r.
StartChain(r) ==
    /\ rq_pc[r] = "new"
    /\ CallsMade < MaxLogCalls
    /\ current_chain' = <<NewChain(QueryOf(r), g_now)>>
    /\ log_calls' = [log_calls EXCEPT ![r].id = ChainId(g_now)]
    /\ rq_pc' = [rq_pc EXCEPT ![r] = "started"]
    /\ UNCHANGED <<chain_files, g_now, q_pc, q_response, q_chain_id>>
    /\ UNCHANGED <<breakerVars, retryVars, limiterVars, ledgerVars, keyedVars, ambientVars>>

\* log_step(component, ..., reasoning) called by request r, after its
\* start_chain; a call after its finalize_chain names the Analyst.
LogStep(r, component) ==
    /\ CallsMade < MaxLogCalls
    /\ IF rq_pc[r] = "started"
       THEN /\ log_calls' = [log_calls EXCEPT ![r].logged =
                             Append(@, [id |-> ActiveId(current_chain),
                                        component |-> component])]
       ELSE /\ rq_pc[r] = "finished"
            /\ component = "Analyst"
            /\ log_calls' = [log_calls EXCEPT ![r].strays = @ + 1]
    /\ current_chain' = LogStepOn(current_chain, component, ReasoningOf(r))
    /\ UNCHANGED <<chain_files, g_now, rq_pc, q_pc, q_response, q_chain_id>>
    /\ UNCHANGED <<breakerVars, retryVars, limiterVars, ledgerVars, keyedVars, ambientVars>>

\* finalize_chain(final_decision, total_duration_ms) called by request r,
\* the write ending as how says.
FinalizeChain(r, ms, how) ==
    /\ CallsMade < MaxLogCalls
    /\ current_chain = <<>> => how = "ok"
    /\ IF rq_pc[r] = "started"
       THEN log_calls' = [log_calls EXCEPT
                             ![r].written = ActiveId(current_chain),
                             ![r].outcome = IF FinalizeRaises(current_chain, how)
                                            THEN how ELSE "returned"]
       ELSE /\ rq_pc[r] = "finished"
            /\ log_calls' = [log_calls EXCEPT ![r].strays = @ + 1]
    /\ current_chain' = FinalizeCc(current_chain, DecisionOf(r), ms, how)
    /\ chain_files' = FinalizeFiles(chain_files, current_chain, DecisionOf(r), ms, how)
    /\ rq_pc' = [rq_pc EXCEPT ![r] = "finished"]
    /\ UNCHANGED <<g_now, q_pc, q_response, q_chain_id>>
    /\ UNCHANGED <<breakerVars, retryVars, limiterVars, ledgerVars, keyedVars, ambientVars>>

\* datetime.now() advances.
LoggerTick ==
    /\ g_now < MaxLogTick
    /\ g_now' = g_now + 1
    /\ UNCHANGED <<current_chain, chain_files, log_calls, rq_pc, q_pc, q_response, q_chain_id>>
    /\ UNCHANGED <<breakerVars, retryVars, limiterVars, ledgerVars, keyedVars, ambientVars>>

\* ----------------------------------------------------------------------
\* handle_query (src/server.py), the /query endpoint, using the one
\* reasoning_logger.  Each action runs the handler from one await to the
\* next.
\* ----------------------------------------------------------------------

\* JSONResponse(..., status_code) with the error_type of the body; reached
\* names the stage of the handler that decided the response.
ErrorResponse(code, error_type, reached) ==
    [status |-> code, error_type |-> error_type, reached |-> reached]
SuccessResponse == [status |-> 200, error_type |-> "none", reached |-> "end"]

\* The handler of request r returns response resp.
Respond(r, resp) ==
    /\ q_response' = [q_response EXCEPT ![r] = resp]
    /\ q_pc' = [q_pc EXCEPT ![r] = "done"]

\* Lines 376-384: start_chain(str(request.url)), then await request.json().
QueryStart(r) ==
    /\ q_pc[r] = "idle"
    /\ current_chain' = <<NewChain(QueryOf(r), g_now)>>
    /\ q_chain_id' = [q_chain_id EXCEPT ![r] = ChainId(g_now)]
    /\ q_pc' = [q_pc EXCEPT ![r] = "await_json"]
    /\ UNCHANGED <<chain_files, g_now, log_calls, rq_pc, q_response>>
    /\ UNCHANGED <<breakerVars, retryVars, limiterVars, ledgerVars, keyedVars, ambientVars>>

\* Lines 384-420: the body arrives (or request.json() raises); it is
\* validated and the components are checked; then the handler awaits the
\* analyst's events.
QueryParse(r, out) ==
    /\ q_pc[r] = "await_json"
    /\ out \in {"ok", "bad_json", "validation_error", "unavailable"}
    /\ CASE out = "ok" ->
              /\ q_pc' = [q_pc EXCEPT ![r] = "await_events"]
              /\ UNCHANGED q_response
         [] out = "bad_json" ->
              Respond(r, ErrorResponse(500, "internal_error", "json"))
         [] out = "validation_error" ->
              Respond(r, ErrorResponse(400, "validation_error", "validate"))
         [] out = "unavailable" ->
              Respond(r, ErrorResponse(503, "service_unavailable", "components"))
    /\ UNCHANGED <<current_chain, chain_files, g_now, log_calls, rq_pc, q_chain_id>>
    /\ UNCHANGED <<breakerVars, retryVars, limiterVars, ledgerVars, keyedVars, ambientVars>>

\* Lines 420-469: the events are gathered (a timeout is caught at line
\* 425), the state is normalized, log_step("Analyst"), the model predicts,
\* log_step("Brain (JEPA)"); then the handler awaits the strategist.  An
\* exception of normalize_state goes to the handler at line 568.
QueryAnalyze(r, out) ==
    /\ q_pc[r] = "await_events"
    /\ out \in {"ok", "error"}
    /\ IF out = "ok"
       THEN /\ current_chain' =
                   LogStepOn(LogStepOn(current_chain, "Analyst", ReasoningOf(r)),
                             "Brain", ReasoningOf(r))
            /\ q_pc' = [q_pc EXCEPT ![r] = "await_strategist"]
            /\ UNCHANGED q_response
       ELSE /\ Respond(r, ErrorResponse(500, "internal_error", "analyst"))
            /\ UNCHANGED current_chain
    /\ UNCHANGED <<chain_files, g_now, log_calls, rq_pc, q_chain_id>>
    /\ UNCHANGED <<breakerVars, retryVars, limiterVars, ledgerVars, keyedVars, ambientVars>>

\* Lines 469-487: strategist.analyze_risk returns, log_step("Strategist"),
\* then the handler awaits the auditor; or it raises asyncio.TimeoutError
\* (line 557) or another Exception (line 568).
QueryStrategist(r, out) ==
    /\ q_pc[r] = "await_strategist"
    /\ out \in {"ok", "timeout", "error"}
    /\ CASE out = "ok" ->
              /\ current_chain' = LogStepOn(current_chain, "Strategist", ReasoningOf(r))
              /\ q_pc' = [q_pc EXCEPT ![r] = "await_auditor"]
              /\ UNCHANGED q_response
         [] out = "timeout" ->
              /\ Respond(r, ErrorResponse(504, "timeout", "strategist"))
              /\ UNCHANGED current_chain
         [] out = "error" ->
              /\ Respond(r, ErrorResponse(500, "internal_error", "strategist"))
              /\ UNCHANGED current_chain
    /\ UNCHANGED <<chain_files, g_now, log_calls, rq_pc, q_chain_id>>
    /\ UNCHANGED <<breakerVars, retryVars, limiterVars, ledgerVars, keyedVars, ambientVars>>

\* Lines 487-555: auditor.validate_action returns, log_step("Auditor"),
\* the response is built, finalize_chain persists the chain and the
\* success response is returned; an exception of finalize_chain goes to
\* the handler at line 568.  Or the auditor raises.
QueryAudit(r, out, ms, how) ==
    /\ q_pc[r] = "await_auditor"
    /\ out \in {"ok", "timeout", "error"}
    /\ CASE out = "ok" ->
              LET cc == LogStepOn(current_chain, "Auditor", ReasoningOf(r)) IN
              /\ cc = <<>> => how = "ok"
              /\ current_chain' = FinalizeCc(cc, DecisionOf(r), ms, how)
              /\ chain_files' = FinalizeFiles(chain_files, cc, DecisionOf(r), ms, how)
              /\ IF FinalizeRaises(cc, how)
                 THEN Respond(r, ErrorResponse(500, "internal_error", "finalize"))
                 ELSE Respond(r, SuccessResponse)
         [] out = "timeout" ->
              /\ how = "ok"
              /\ Respond(r, ErrorResponse(504, "timeout", "auditor"))
              /\ UNCHANGED <<current_chain, chain_files>>
         [] out = "error" ->
              /\ how = "ok"
              /\ Respond(r, ErrorResponse(500, "internal_error", "auditor"))
              /\ UNCHANGED <<current_chain, chain_files>>
    /\ UNCHANGED <<g_now, log_calls, rq_pc, q_chain_id>>
    /\ UNCHANGED <<breakerVars, retryVars, limiterVars, ledgerVars, keyedVars, ambientVars>>

\* ======================================================================
\* security RateLimiter, memory storage (src/security/rate_limiter.py)
\* ======================================================================

Keys == {"k1", "k2"}    \* client keys

\* The integer unit of allowances and the bucket size in it: time is in
\* ticks of one second, per is a multiple of rate, one token is KOne units,
\* so that time_passed * (rate / per) tokens are time_passed units.
KOne == k_per \div k_rate
KCap == k_rate * KOne

\* The info dict of a call, with retry_after = NoValue for a missing key.
NoCheck == [key |-> "none", allowed |-> FALSE, remaining |-> 0, retry_after |-> NoValue]

\* No keyed limiter is in use.
KeyedOff ==
    /\ k_rate = 1
    /\ k_per = 1
    /\ allowances = <<>>
    /\ k_last_check = <<>>
    /\ k_clock = 0
    /\ k_first_use = <<>>
    /\ k_allowed = [k \in Keys |-> 0]
    /\ k_last = NoCheck

\* RateLimiter.__init__(rate, per, storage='memory'), at tick 0.
KeyedInit ==
    /\ k_rate \in 1..MaxKeyedRate
    /\ \E q \in 1..MaxKeyedTokenTicks : k_per = k_rate * q
    /\ allowances = <<>>
    /\ k_last_check = <<>>
    /\ k_clock = 0
    /\ k_first_use = <<>>
    /\ k_allowed = [k \in Keys |-> 0]
    /\ k_last = NoCheck

\* Lines 64-66: the pair of a key is created on its first use.
LastCheckOf(key) == IF key \in DOMAIN k_last_check THEN k_last_check[key] ELSE k_clock
AllowanceOf(key) == IF key \in DOMAIN allowances THEN allowances[key] ELSE KCap

\* Lines 71-74: refill by time_passed * (rate / per), capped at rate.
Refilled(key) ==
    LET a == AllowanceOf(key) + (k_clock - LastCheckOf(key))
    IN  IF a > KCap THEN KCap ELSE a

\* Line 76 with > for >=.
HasToken_Strict(a) == a > KOne

\* Line 76: self.allowances[key] >= 1.0
HasToken(a) == a >= KOne

\* A function with the value v at key.
Put(f, key, v) == (key :> v) @@ f

\* RateLimiter._check_memory(key), lines 60-88; it has no await inside.
IsAllowed(key) ==
    /\ k_last_check' = Put(k_last_check, key, k_clock)
    /\ k_first_use' = IF key \in DOMAIN k_first_use THEN k_first_use
                      ELSE Put(k_first_use, key, k_clock)
    /\ LET a == Refilled(key) IN
       IF HasToken(a)
       THEN /\ allowances' = Put(allowances, key, a - KOne)
            /\ k_allowed' = [k_allowed EXCEPT ![key] = @ + 1]
            /\ k_last' = [key |-> key, allowed |-> TRUE,
                          remaining |-> (a - KOne) \div KOne,
                          retry_after |-> NoValue]
       ELSE /\ allowances' = Put(allowances, key, a)
            /\ k_allowed' = k_allowed
            /\ k_last' = [key |-> key, allowed |-> FALSE, remaining |-> 0,
                          retry_after |-> KOne - a]
    /\ UNCHANGED <<k_rate, k_per, k_clock>>
    /\ UNCHANGED <<breakerVars, retryVars, limiterVars, ledgerVars, loggerVars, ambientVars>>

\* time.time() advances by one second.
KeyedTick ==
    /\ k_clock < MaxKeyedTick
    /\ k_clock' = k_clock + 1
    /\ UNCHANGED <<k_rate, k_per, allowances, k_last_check, k_first_use, k_allowed, k_last>>
    /\ UNCHANGED <<breakerVars, retryVars, limiterVars, ledgerVars, loggerVars, ambientVars>>

\* ======================================================================
\* AmbientLLMClient._make_request (src/ambient_client.py)
\* ======================================================================

\* CircuitBreaker(name="AmbientLLM", failure_threshold=5, recovery_timeout=60)
AmbientFailureThreshold == 5
AmbientRecoveryTimeout == 60

\* Seconds the clock advances in one step: half the recovery timeout.
AmbientTickSeconds == AmbientRecoveryTimeout \div 2

\* No LLM client is in use.
AmbientOff ==
    /\ max_retries = 0
    /\ a_pc = [t \in Tasks |-> "idle"]
    /\ a_attempts = [t \in Tasks |-> 0]

\* AmbientLLMClient.__init__(max_retries=...), with its circuit breaker.
AmbientInit ==
    /\ max_retries \in 0..MaxRetries
    /\ a_pc = [t \in Tasks |-> "idle"]
    /\ a_attempts = [t \in Tasks |-> 0]
    /\ failure_threshold = AmbientFailureThreshold
    /\ recovery_timeout = AmbientRecoveryTimeout
    /\ failure_count = 0
    /\ last_failure_time = NoTime
    /\ state = CLOSED
    /\ now = 0
    /\ pc = [t \in Tasks |-> "idle"]
    /\ admitted = [t \in Tasks |-> "none"]
    /\ result = [t \in Tasks |-> NoResult]
    /\ stats = NoStats

\* A task may begin _make_request; rate_limiter.acquire() (line 98) has
\* returned.
MayRequest(t) ==
    /\ pc[t] = "idle"
    /\ a_pc[t] = "idle"
    /\ Calls < MaxRequests

\* _make_request, line 121, with CircuitBreaker.call lines 52-57: the
\* breaker is OPEN and the timeout has not elapsed; the lambda is not
\* called, so retry_with_backoff and _call_api do not run.
RequestRejected(t) ==
    /\ MayRequest(t)
    /\ state = OPEN
    /\ ~ShouldAttemptReset
    /\ result' = [result EXCEPT ![t] = CircuitOpenError]
    /\ stats' = [stats EXCEPT !.rejected = @ + 1]
    /\ a_attempts' = [a_attempts EXCEPT ![t] = 0]
    /\ UNCHANGED <<failure_threshold, recovery_timeout, failure_count,
                   last_failure_time, state, now, pc, admitted>>
    /\ UNCHANGED <<max_retries, a_pc>>
    /\ UNCHANGED <<retryVars, limiterVars, ledgerVars, loggerVars, keyedVars>>

\* _make_request, lines 121-127: the breaker admits the request and awaits
\* the lambda; retry_with_backoff enters its loop and awaits the first
\* _call_api.
RequestAdmitted(t) ==
    /\ MayRequest(t)
    /\ max_retries > 0
    /\ state = OPEN => ShouldAttemptReset
    /\ state' = IF state = OPEN THEN HALF_OPEN ELSE state
    /\ pc' = [pc EXCEPT ![t] = "awaiting"]
    /\ admitted' = [admitted EXCEPT ![t] = state']
    /\ result' = [result EXCEPT ![t] = NoResult]
    /\ stats' = [stats EXCEPT !.invoked = @ + 1]
    /\ a_pc' = [a_pc EXCEPT ![t] = "attempting"]
    /\ a_attempts' = [a_attempts EXCEPT ![t] = 1]
    /\ UNCHANGED <<failure_threshold, recovery_timeout, failure_count,
                   last_failure_time, now>>
    /\ UNCHANGED max_retries
    /\ UNCHANGED <<retryVars, limiterVars, ledgerVars, loggerVars, keyedVars>>

\* The same with max_retries = 0: range(0) is empty, retry_with_backoff
\* reaches `raise last_exception` with None, a TypeError, before it awaits
\* anything; CircuitBreaker.call catches it and runs _on_failure.
RequestAdmittedNoAttempt(t) ==
    /\ MayRequest(t)
    /\ max_retries = 0
    /\ state = OPEN => ShouldAttemptReset
    /\ failure_count' = failure_count + 1
    /\ last_failure_time' = now
    /\ state' = IF failure_count + 1 >= failure_threshold THEN OPEN
                ELSE IF state = OPEN THEN HALF_OPEN ELSE state
    /\ admitted' = [admitted EXCEPT ![t] = IF state = OPEN THEN HALF_OPEN ELSE state]
    /\ result' = [result EXCEPT ![t] = Raised("TypeError", "action", "TypeError")]
    /\ stats' = [stats EXCEPT !.invoked = @ + 1, !.failed = @ + 1]
    /\ a_attempts' = [a_attempts EXCEPT ![t] = 0]
    /\ UNCHANGED <<failure_threshold, recovery_timeout, now, pc>>
    /\ UNCHANGED <<max_retries, a_pc>>
    /\ UNCHANGED <<retryVars, limiterVars, ledgerVars, loggerVars, keyedVars>>

\* _call_api returns the 200 response: retry_with_backoff returns it and
\* CircuitBreaker.call runs _on_success.
AttemptSucceeds(t, v) ==
    /\ a_pc[t] = "attempting"
    /\ OnSuccess
    /\ pc' = [pc EXCEPT ![t] = "idle"]
    /\ a_pc' = [a_pc EXCEPT ![t] = "idle"]
    /\ result' = [result EXCEPT ![t] = Returned(v, v)]
    /\ stats' = [stats EXCEPT !.succeeded = @ + 1]
    /\ UNCHANGED <<failure_threshold, recovery_timeout, now, admitted>>
    /\ UNCHANGED <<max_retries, a_attempts>>
    /\ UNCHANGED <<retryVars, limiterVars, ledgerVars, loggerVars, keyedVars>>

\* A failed attempt that reaches the breaker's _on_failure every time.
AttemptFails_CountsEach(t) ==
    /\ a_pc[t] = "attempting"
    /\ OnFailure
    /\ IF a_attempts[t] >= max_retries
       THEN /\ pc' = [pc EXCEPT ![t] = "idle"]
            /\ a_pc' = [a_pc EXCEPT ![t] = "idle"]
            /\ result' = [result EXCEPT ![t] = Raised("Exception", "action", "Exception")]
            /\ stats' = [stats EXCEPT !.failed = @ + 1]
       ELSE /\ a_pc' = [a_pc EXCEPT ![t] = "sleeping"]
            /\ UNCHANGED <<pc, result, stats>>
    /\ UNCHANGED <<failure_threshold, recovery_timeout, now, admitted>>
    /\ UNCHANGED <<max_retries, a_attempts>>
    /\ UNCHANGED <<retryVars, limiterVars, ledgerVars, loggerVars, keyedVars>>

\* _call_api raises an Exception (non-200 response, transport error).
\* retry_with_backoff, lines 135-156: on the last attempt it re-raises, and
\* CircuitBreaker.call runs _on_failure once; otherwise it sleeps and the
\* breaker sees nothing.
AttemptFails(t) ==
    /\ a_pc[t] = "attempting"
    /\ IF a_attempts[t] >= max_retries
       THEN /\ OnFailure
            /\ pc' = [pc EXCEPT ![t] = "idle"]
            /\ a_pc' = [a_pc EXCEPT ![t] = "idle"]
            /\ result' = [result EXCEPT ![t] = Raised("Exception", "action", "Exception")]
            /\ stats' = [stats EXCEPT !.failed = @ + 1]
       ELSE /\ a_pc' = [a_pc EXCEPT ![t] = "sleeping"]
            /\ UNCHANGED <<failure_count, last_failure_time, state>>
            /\ UNCHANGED <<pc, result, stats>>
    /\ UNCHANGED <<failure_threshold, recovery_timeout, now, admitted>>
    /\ UNCHANGED <<max_retries, a_attempts>>
    /\ UNCHANGED <<retryVars, limiterVars, ledgerVars, loggerVars, keyedVars>>

\* retry_with_backoff, line 154: asyncio.sleep(delay) ends and the loop
\* awaits _call_api again.
BackoffEnds(t) ==
    /\ a_pc[t] = "sleeping"
    /\ a_pc' = [a_pc EXCEPT ![t] = "attempting"]
    /\ a_attempts' = [a_attempts EXCEPT ![t] = @ + 1]
    /\ UNCHANGED breakerVars
    /\ UNCHANGED max_retries
    /\ UNCHANGED <<retryVars, limiterVars, ledgerVars, loggerVars, keyedVars>>

\* The task is cancelled while it awaits _call_api or sleeps:
\* CancelledError is not an Exception, so neither retry_with_backoff nor
\* CircuitBreaker.call catches it.
RequestCancelled(t) ==
    /\ a_pc[t] \in {"attempting", "sleeping"}
    /\ pc' = [pc EXCEPT ![t] = "idle"]
    /\ a_pc' = [a_pc EXCEPT ![t] = "idle"]
    /\ result' = [result EXCEPT ![t] = Raised("CancelledError", "action", "CancelledError")]
    /\ stats' = [stats EXCEPT !.uncaught = @ + 1]
    /\ UNCHANGED <<failure_threshold, recovery_timeout, failure_count,
                   last_failure_time, state, now, admitted>>
    /\ UNCHANGED <<max_retries, a_attempts>>
    /\ UNCHANGED <<retryVars, limiterVars, ledgerVars, loggerVars, keyedVars>>

\* datetime.now() advances by AmbientTickSeconds.
AmbientTick ==
    /\ now < MaxAmbientTicks * AmbientTickSeconds
    /\ now' = now + AmbientTickSeconds
    /\ UNCHANGED <<failure_threshold, recovery_timeout, failure_count,
                   last_failure_time, state, pc, admitted, result, stats>>
    /\ UNCHANGED ambientVars
    /\ UNCHANGED <<retryVars, limiterVars, ledgerVars, loggerVars, keyedVars>>

\* None of the logger, the keyed limiter and the LLM client is in use.
ExtOff == LoggerOff /\ KeyedOff /\ AmbientOff

\* The circuit breaker, called by the tasks.
Init == BreakerInit /\ RetryOff /\ LimiterOff /\ LedgerOff /\ ExtOff

Next ==
    \/ \E t \in Tasks : CallRejected(t)
    \/ \E t \in Tasks : CallAdmitted(t)
    \/ \E t \in Tasks : \E v \in Values : ActionReturns(t, v)
    \/ \E t \in Tasks : \E k \in ErrKinds : ActionRaises(t, k)
    \/ Tick
    \/ DayPasses

Spec == Init /\ [][Next]_vars

\* One run of retry_with_backoff.
InitRetry == BreakerOff /\ RetryInit /\ LimiterOff /\ LedgerOff /\ ExtOff

NextRetry ==
    \/ \E v \in Values : RetryFuncReturns(v)
    \/ \E k \in ErrKinds : RetryFuncRaisesUncaught(k)
    \/ \E k \in ErrKinds : RetryFuncRaisesLast(k)
    \/ \E k \in ErrKinds : \E rnd \in RandomTenths : RetryFuncRaisesSleep(k, rnd)
    \/ RetryWakes
    \/ RetryLoopEnds

SpecRetry == InitRetry /\ [][NextRetry]_vars

\* One RateLimiter, shared by the tasks.  The event loop runs every task
\* whose sleep has ended, and time advances.
InitLimiter == BreakerOff /\ RetryOff /\ LimiterInit /\ LedgerOff /\ ExtOff

NextLimiter ==
    \/ \E t \in Tasks : AcquireTakesToken(t)
    \/ \E t \in Tasks : AcquireSleeps(t)
    \/ \E t \in Tasks : AcquireWakes(t)
    \/ LimiterTick

SpecLimiter ==
    /\ InitLimiter
    /\ [][NextLimiter]_vars
    /\ WF_vars(LimiterTick)
    /\ \A t \in Tasks : WF_vars(AcquireWakes(t))

\* The prediction ledger, its operations called one at a time.
InitLedger == BreakerOff /\ RetryOff /\ LimiterOff /\ LedgerInit /\ ExtOff

NextLedger ==
    \/ \E pl \in Predicteds : \E md \in MetadataArgs : CreatePrediction(pl, md)
    \/ \E id \in PredictionIds : \E a \in Actuals : UpdateActual(id, a)
    \/ \E delay \in 0..MaxLookback : AutoValidatePass(delay)
    \/ Reload
    \/ \E lookback \in 0..MaxLookback : CalculateAccuracy(lookback)
    \/ LedgerTick

SpecLedger == InitLedger /\ [][NextLedger]_vars

\* The metrics tracker: fed by create_prediction, completed by its own
\* update_actual, read by get_accuracy_stats.
InitMetrics == BreakerOff /\ RetryOff /\ LimiterOff /\ LedgerInit /\ ExtOff

NextMetrics ==
    \/ \E pl \in Predicteds : \E md \in MetadataArgs : CreatePrediction(pl, md)
    \/ \E index \in 0..MaxLines : \E a \in Actuals : MetricsUpdateActual(index, a)
    \/ GetAccuracyStats
    \/ LedgerTick

SpecMetrics == InitMetrics /\ [][NextMetrics]_vars

\* The ledger and the metrics tracker side by side: the same predictions
\* recorded and validated in both, and both accuracy reports.
InitAccuracy == BreakerOff /\ RetryOff /\ LimiterOff /\ LedgerInit /\ ExtOff

NextAccuracy ==
    \/ \E pl \in Predicteds : \E md \in MetadataArgs : CreatePrediction(pl, md)
    \/ \E id \in PredictionIds : \E a \in Actuals : UpdateActual(id, a)
    \/ \E lookback \in 0..MaxLookback : CalculateAccuracy(lookback)
    \/ \E index \in 0..MaxLines : \E a \in Actuals : MetricsUpdateActual(index, a)
    \/ GetAccuracyStats
    \/ LedgerTick

SpecAccuracy == InitAccuracy /\ [][NextAccuracy]_vars

\* The reasoning logger, called directly by two requests.
InitLogger == BreakerOff /\ RetryOff /\ LimiterOff /\ LedgerOff
              /\ LoggerInit /\ KeyedOff /\ AmbientOff

NextLogger ==
    \/ \E r \in Requests : StartChain(r)
    \/ \E r \in Requests : \E component \in Components : LogStep(r, component)
    \/ \E r \in Requests : \E ms \in Durations : \E how \in WriteOutcomes :
           FinalizeChain(r, ms, how)
    \/ LoggerTick

SpecLogger == InitLogger /\ [][NextLogger]_vars

\* Two /query requests handled on one event loop.
InitQuery == InitLogger

NextQuery ==
    \/ \E r \in Requests : QueryStart(r)
    \/ \E r \in Requests :
           \E out \in {"ok", "bad_json", "validation_error", "unavailable"} :
               QueryParse(r, out)
    \/ \E r \in Requests : \E out \in {"ok", "error"} : QueryAnalyze(r, out)
    \/ \E r \in Requests : \E out \in {"ok", "timeout", "error"} :
           QueryStrategist(r, out)
    \/ \E r \in Requests : \E out \in {"ok", "timeout", "error"} :
           \E ms \in Durations : \E how \in WriteOutcomes : QueryAudit(r, out, ms, how)
    \/ LoggerTick

SpecQuery == InitQuery /\ [][NextQuery]_vars

\* The memory-backed security rate limiter, asked about two client keys.
InitKeyed == BreakerOff /\ RetryOff /\ LimiterOff /\ LedgerOff
             /\ LoggerOff /\ KeyedInit /\ AmbientOff

NextKeyed ==
    \/ \E key \in Keys : IsAllowed(key)
    \/ KeyedTick

SpecKeyed == InitKeyed /\ [][NextKeyed]_vars

\* The LLM client's requests, made by the tasks through its one breaker.
InitAmbient == AmbientInit /\ RetryOff /\ LimiterOff /\ LedgerOff
               /\ LoggerOff /\ KeyedOff

NextAmbient ==
    \/ \E t \in Tasks : RequestRejected(t)
    \/ \E t \in Tasks : RequestAdmitted(t)
    \/ \E t \in Tasks : RequestAdmittedNoAttempt(t)
    \/ \E t \in Tasks : \E v \in Values : AttemptSucceeds(t, v)
    \/ \E t \in Tasks : AttemptFails(t)
    \/ \E t \in Tasks : BackoffEnds(t)
    \/ \E t \in Tasks : RequestCancelled(t)
    \/ AmbientTick

SpecAmbient == InitAmbient /\ [][NextAmbient]_vars

\* ======================================================================
\* Claims about CircuitBreaker, checked under Spec.
\* ======================================================================

\* Exactly n calls were made, each invoked the action, and each failed.
OnlyFailures(n) ==
    stats = [invoked |-> n, succeeded |-> 0, failed |-> n, uncaught |-> 0, rejected |-> 0]

\* A step in which some task enters CircuitBreaker.call.
CallStep == Calls' = Calls + 1

\* C1: after exactly N = failure_threshold failing calls through a fresh
\* breaker the state is OPEN with failure_count = N, and a further call made
\* before recovery_timeout has elapsed is rejected without invoking the
\* wrapped action: the invocation count stays N.
C1_OpensAfterThresholdFailures ==
    /\ [](OnlyFailures(failure_threshold)
            => state = OPEN /\ failure_count = failure_threshold)
    /\ [][(/\ OnlyFailures(failure_threshold)
           /\ now - last_failure_time < recovery_timeout
           /\ CallStep)
          => (/\ stats'.rejected = 1
              /\ stats'.invoked = failure_threshold
              /\ \E t \in Tasks : result'[t] = CircuitOpenError /\ pc'[t] = "idle"
              /\ state' = OPEN)]_vars

\* C1 witness: threshold 2, two failures, then one rejected call.
C1_Witness ==
    /\ failure_threshold = 2
    /\ stats = [invoked |-> 2, succeeded |-> 0, failed |-> 2, uncaught |-> 0, rejected |-> 1]
    /\ state = OPEN
    /\ failure_count = 2
    /\ \E t \in Tasks : result[t] = CircuitOpenError

\* C2 (the claim as stated): a call on an OPEN breaker made when
\* now - last_failure_time >= recovery_timeout, however large the elapsed
\* time, moves the breaker to HALF_OPEN and invokes the wrapped action
\* once; it is never rejected.
C2_ElapsedTimeoutAlwaysProbes ==
    [][(/\ state = OPEN
        /\ last_failure_time # NoTime
        /\ now - last_failure_time >= recovery_timeout
        /\ CallStep)
       => (/\ state' = HALF_OPEN
           /\ stats'.invoked = stats.invoked + 1
           /\ stats'.rejected = stats.rejected)]_vars

\* C3 (the claim as stated): while the breaker is HALF_OPEN at most one
\* wrapped action admitted as a probe is in flight.
C3_SingleProbeInFlight ==
    state = HALF_OPEN
        => Cardinality({t \in Tasks : pc[t] = "awaiting" /\ admitted[t] = HALF_OPEN}) <= 1

\* C4: when a call whose action was admitted (in CLOSED or HALF_OPEN)
\* completes successfully, failure_count becomes 0, state becomes CLOSED,
\* and the caller receives exactly what the action returned.
C4_SuccessResetsAndCloses ==
    [][\A t \in Tasks :
          (/\ pc[t] = "awaiting"
           /\ admitted[t] \in {CLOSED, HALF_OPEN}
           /\ pc'[t] = "idle"
           /\ result'[t].status = "returned")
          => (/\ failure_count' = 0
              /\ state' = CLOSED
              /\ result'[t].val = result'[t].produced
              /\ result'[t].val \in Values)]_vars

\* C4 witness: a HALF_OPEN probe returned and closed the breaker.
C4_Witness ==
    \E t \in Tasks :
        /\ admitted[t] = HALF_OPEN
        /\ result[t].status = "returned"
        /\ stats.failed >= failure_threshold
        /\ state = CLOSED
        /\ failure_count = 0

\* C5: in every reachable state, under any interleaving of calls,
\* state = OPEN implies failure_count >= failure_threshold.
C5_OpenImpliesThresholdReached ==
    state = OPEN => failure_count >= failure_threshold

\* C5 witness: the breaker is OPEN after a success was interleaved with
\* the failures, while another call is still in flight.
C5_Witness ==
    /\ state = OPEN
    /\ stats.succeeded >= 1
    /\ failure_threshold = 2
    /\ \E t \in Tasks : pc[t] = "awaiting"

\* C6: a call rejected by an OPEN breaker has no side effect: the wrapped
\* action is not invoked and state, failure_count and last_failure_time
\* keep their values.
C6_RejectionHasNoSideEffect ==
    [][stats'.rejected = stats.rejected + 1
       => (/\ state' = state
           /\ failure_count' = failure_count
           /\ last_failure_time' = last_failure_time
           /\ stats'.invoked = stats.invoked
           /\ pc' = pc)]_vars

\* C6 witness: two calls were rejected, the second later than the last
\* failure, and the breaker still holds the time of that failure.
C6_Witness ==
    /\ stats.rejected >= 2
    /\ state = OPEN
    /\ now > last_failure_time
    /\ last_failure_time # NoTime

\* C7 (the claim as stated): a wrapped action that is cancelled is recorded
\* as a failure: failure_count is incremented, last_failure_time updated,
\* and a cancelled HALF_OPEN probe does not leave the breaker HALF_OPEN.
C7_CancellationCountsAsFailure ==
    [][\A t \in Tasks :
          (/\ pc[t] = "awaiting"
           /\ pc'[t] = "idle"
           /\ result'[t].produced = "CancelledError")
          => (/\ failure_count' = failure_count + 1
              /\ last_failure_time' = now
              /\ state' # HALF_OPEN)]_vars

\* C8 (the claim as stated): the error raised for a rejected call has a
\* kind different from every kind of error the wrapped action raises, and
\* the action's errors reach the caller with their kind unchanged.
C8_CircuitOpenErrorIsDistinct ==
    \A t, u \in Tasks :
        /\ (result[u].status = "raised" /\ result[u].origin = "action")
              => result[u].val = result[u].produced
        /\ (/\ result[t].status = "raised" /\ result[t].origin = "breaker"
            /\ result[u].status = "raised" /\ result[u].origin = "action")
              => result[t].val # result[u].val


\* ======================================================================
\* Claims about retry_with_backoff, checked under SpecRetry.
\* ======================================================================

IsCall(e) == e.ev = "call"
IsSleep(e) == e.ev = "sleep"

\* The invocations of func so far, in order.
FuncCalls == SelectSeq(r_trace, IsCall)

\* The sleeps so far, in order.
Sleeps == SelectSeq(r_trace, IsSleep)

\* Every failure of func so far was of a type the except clause catches.
FailuresAreRetryable ==
    \A i \in 1..Len(FuncCalls) :
        FuncCalls[i].out \in ErrKinds => Catches(FuncCalls[i].out)

\* Every invocation of func so far failed.
FuncAlwaysFailed ==
    \A i \in 1..Len(FuncCalls) : FuncCalls[i].out \in ErrKinds

RECURSIVE Power(_, _)
Power(b, n) == IF n = 0 THEN 1 ELSE b * Power(b, n - 1)

\* min(initial_delay * exponential_base^i, max_delay), in tenths of a second.
ExpectedSleep(i) ==
    LET raw == initial_delay * Power(exponential_base, i)
    IN  10 * (IF raw < max_delay THEN raw ELSE max_delay)

C11_JitterFactorBelowOne ==
    jitter =>
        \A i \in 1..Len(Sleeps) :
            /\ 2 * Sleeps[i].d >= ExpectedSleep(i - 1)
            /\ Sleeps[i].d < ExpectedSleep(i - 1)
            /\ Sleeps[i].d <= 10 * max_delay

\* ======================================================================
\* Claims about RateLimiter, checked under SpecLimiter.
\* ======================================================================

\* The acquire calls that have returned.
ReturnedCalls == {i \in 1..Len(acquires) : acquires[i].done # NotReturned}

\* C12: at every point where acquire yields or returns, under any
\* interleaving of concurrent callers, 0 <= allowance <= rate.
C12_AllowanceWithinBucket ==
    /\ 0 <= allowance
    /\ allowance <= rate * (per \div rate)

\* C12 witness: one task is asleep in acquire, a later call of another
\* task has taken a token that was replenished meanwhile, and a part of a
\* token is left in the bucket.
C12_Witness ==
    \E i, j \in 1..Len(acquires) :
        /\ i < j
        /\ acquires[i].done = NotReturned
        /\ acquires[j].task # acquires[i].task
        /\ acquires[j].start > acquires[i].start
        /\ acquires[j].sleep = 0
        /\ allowance > 0

\* Only task t1 calls acquire, each call beginning when the one before
\* returned, the first at construction.
SingleCallerBackToBack ==
    \A i \in 1..Len(acquires) :
        /\ acquires[i].task = "t1"
        /\ acquires[i].start = IF i = 1 THEN 0 ELSE acquires[i - 1].done

C14_BurstThenOneTokenWait ==
    \A i \in 1..Len(acquires) :
        (\A j \in 1..i : acquires[j].start = 0) =>
            /\ i <= rate => acquires[i].sleep = 0 /\ acquires[i].done = 0
            /\ i = rate + 1 =>
                 /\ acquires[i].sleep = per \div rate
                 /\ i \in ReturnedCalls => acquires[i].done >= per \div rate

\* C14 witness: rate = 2; three calls at tick 0; the third slept per / rate
\* and has returned.
C14_Witness ==
    /\ rate = 2
    /\ Len(acquires) >= 3
    /\ \A j \in 1..3 : acquires[j].start = 0
    /\ acquires[1].sleep = 0 /\ acquires[2].sleep = 0
    /\ acquires[3].sleep = per \div rate
    /\ 3 \in ReturnedCalls

\* C15 (the claim as stated): with concurrent callers, the number of
\* acquire calls that have returned by time t never exceeds
\* rate + t * rate / per.
C15_RateCeiling ==
    Cardinality(ReturnedCalls) * (per \div rate) <= rate * (per \div rate) + clock

\* C16: every acquire call eventually returns: a task asleep in acquire
\* leaves it (acquire has no raising path; a call that takes a token
\* returns in the step it begins).
C16_AcquireEventuallyReturns ==
    \A t \in Tasks : (l_pc[t] = "sleeping") ~> (l_pc[t] = "idle")

\* C16 witness: both tasks were asleep in acquire at the same time and
\* both calls have returned.
C16_Witness ==
    \E i, j \in ReturnedCalls :
        /\ i < j
        /\ acquires[i].task # acquires[j].task
        /\ acquires[i].sleep > 0
        /\ acquires[j].sleep > 0
        /\ acquires[j].start < acquires[i].done

\* ======================================================================
\* Claims about PredictionService and MetricsTracker, checked under
\* SpecLedger.
\* ======================================================================

\* C17 (the claim as stated): update_actual with an id that was never
\* recorded fails with a not-found error raised to the caller, and leaves
\* the entries and both logs unchanged.
C17_UnknownIdRaisesNotFound ==
    [][\A id \in PredictionIds : \A a \in Actuals :
          (UpdateActual(id, a) /\ id \notin DOMAIN predictions) =>
              /\ last_op'.outcome = "raised"
              /\ last_op'.err = "NotFound"
              /\ UNCHANGED <<predictions, pred_file, updates_file>>]_vars

\* The update records of id in prediction_updates.jsonl.
UpdateRecords(file, id) ==
    {i \in 1..Len(file) : file[i].json.prediction_id = id}

\* C18 (the claim as stated): across create_prediction, update_actual and
\* auto-validation steps, an actual value that is set never changes, and
\* the updates log never holds more than one record of one prediction id.
C18_ActualSetAtMostOnce ==
    [][last_op'.op \in {"create_prediction", "update_actual", "auto_validate"} =>
          /\ \A id \in DOMAIN predictions :
                 (/\ predictions[id].actual_liquidity # NoValue
                  /\ last_op'.op # "create_prediction") =>
                     /\ id \in DOMAIN predictions'
                     /\ predictions'[id].actual_liquidity =
                            predictions[id].actual_liquidity
          /\ \A id \in PredictionIds :
                 Cardinality(UpdateRecords(updates_file', id)) <= 1]_vars

\* C19 (the claim as stated): after create_prediction and
\* update_actual(id, a), a new PredictionService over the same storage
\* holds one entry for id, with the predicted value, timestamp and
\* metadata as recorded and with actual value a.
C19_ReloadYieldsUpdatedEntry ==
    [][Reload =>
          \A id \in DOMAIN predictions :
              (/\ predictions[id].actual_liquidity # NoValue
               /\ \E i \in UpdateRecords(updates_file, id) :
                      updates_file[i].json.actual_liquidity =
                          predictions[id].actual_liquidity) =>
                  /\ id \in DOMAIN predictions'
                  /\ predictions'[id] = predictions[id]]_vars

\* The statistics of the last calculate_accuracy call are undefined: no
\* entry qualified, or the qualifying actual values include a 0 (as they
\* do when their mean is 0, no actual value being negative).
AccuracyUndefined ==
    \/ last_op.recent = {}
    \/ \E id \in last_op.recent : predictions[id].actual_liquidity = 0

\* The statistics of get_accuracy_stats are undefined likewise.
MetricsAccuracyUndefined ==
    \/ Completed = {}
    \/ SumMActuals(Completed) = 0
    \/ \E i \in Completed : m_predictions[i].actual = 0

\* C20 (the claim as stated): whenever the accuracy statistics are
\* undefined they are reported as absent: the call returns, and the
\* accuracy is None, not a number.
C20_UndefinedAccuracyIsAbsent ==
    /\ (last_op.op = "calculate_accuracy" /\ AccuracyUndefined) =>
           /\ last_op.outcome = "returned"
           /\ last_op.accuracy = NoStat
    /\ (last_op.op = "get_accuracy_stats" /\ MetricsAccuracyUndefined) =>
           /\ last_op.outcome = "returned"
           /\ last_op.accuracy = NoStat

\* ======================================================================
\* Claims about the two accuracy reports, checked under SpecAccuracy.
\* ======================================================================

\* The sum of the actual values of the entries of S.
RECURSIVE SumActuals(_)
SumActuals(S) ==
    IF S = {}
    THEN 0
    ELSE LET id == CHOOSE x \in S : TRUE
         IN predictions[id].actual_liquidity + SumActuals(S \ {id})

\* 100 - (mean_absolute_error / mean(actual) * 100) over the entries of S,
\* the sum of their actual values not being 0.
AccuracyByMeans(S) ==
    Number(FracSub(Frac(100, 1), Frac(SumErrors(S) * 100, SumActuals(S))))

\* The completed records of the metrics tracker are the (predicted, actual)
\* pairs of the entries the last calculate_accuracy call took, one record
\* per entry.
SamePairs ==
    /\ Cardinality(Completed) = Cardinality(last_op.recent)
    /\ {m_predictions[i].id : i \in Completed} = last_op.recent
    /\ \A i \in Completed :
           /\ m_predictions[i].predicted =
                  predictions[m_predictions[i].id].predicted_liquidity
           /\ m_predictions[i].actual =
                  predictions[m_predictions[i].id].actual_liquidity

\* C21 (the claim as stated): the accuracy calculate_accuracy returns over
\* its qualifying entries is 100 - (MAE / mean(actual) * 100), and it is
\* the value get_accuracy_stats reports for the same pairs.
C21_AccuracyIsOneMinusRelativeMAE ==
    (/\ last_op.op = "calculate_accuracy"
     /\ last_op.outcome = "returned"
     /\ last_op.count > 0) =>
        /\ last_op.accuracy = AccuracyByMeans(last_op.recent)
        /\ (numpy_available /\ SamePairs) =>
               last_op.accuracy = GetAccuracyStatsResult.accuracy

\* ======================================================================
\* Claims about ProofOfReasoningLogger, checked under SpecLogger.
\* ======================================================================

OtherRequest(r) == IF r = "A" THEN "B" ELSE "A"

\* The steps a record holds when it holds the log_step calls of request r,
\* numbered from 1 in call order.
StepsOf(r) ==
    [i \in 1..Len(log_calls[r].logged) |->
        [step_number |-> i, component |-> log_calls[r].logged[i].component,
         reasoning |-> ReasoningOf(r)]]

\* Request r made start_chain, its log_step calls and a finalize_chain that
\* returned, and nobody else has called the logger.
RanAlone(r) ==
    /\ rq_pc[r] = "finished"
    /\ log_calls[r].outcome = "returned"
    /\ CallsOf(OtherRequest(r)) = 0

\* C22: after start_chain(q); n x log_step; finalize_chain(d, t) with no
\* other call in between, the persisted record holds exactly the n steps,
\* numbered 1..n in call order, with query q and final_decision d; the
\* active chain is cleared, and calls that follow without a new
\* start_chain leave all that as it is.
C22_ChainPersistedInOrder ==
    \A r \in Requests :
        RanAlone(r) =>
            /\ log_calls[r].id \in DOMAIN chain_files
            /\ chain_files[log_calls[r].id].valid
            /\ chain_files[log_calls[r].id].json.steps = StepsOf(r)
            /\ chain_files[log_calls[r].id].json.query = QueryOf(r)
            /\ chain_files[log_calls[r].id].json.final_decision = DecisionOf(r)
            /\ DOMAIN chain_files = {log_calls[r].id}
            /\ current_chain = <<>>

\* C22 witness: request A alone logged three steps, not all of one
\* component, finalized, and then called log_step or finalize_chain again.
C22_Witness ==
    /\ RanAlone("A")
    /\ Len(log_calls["A"].logged) = 3
    /\ log_calls["A"].logged[1].component # log_calls["A"].logged[2].component
    /\ log_calls["A"].strays = 1

\* C23: log_step and finalize_chain called while no chain is active
\* return, leave the active chain empty and write nothing.
C23_NoActiveChainIsNoOp ==
    [][\A r \in Requests : \A component \in Components :
       \A ms \in Durations : \A how \in WriteOutcomes :
          (/\ current_chain = <<>>
           /\ LogStep(r, component) \/ FinalizeChain(r, ms, how)) =>
              /\ current_chain' = <<>>
              /\ chain_files' = chain_files
              /\ (rq_pc[r] = "started" /\ rq_pc'[r] = "finished") =>
                     log_calls'[r].outcome = "returned"]_vars

\* C23 witness: request A ran alone, and after its finalize_chain cleared
\* the chain it called log_step or finalize_chain three more times.
C23_Witness ==
    /\ RanAlone("A")
    /\ log_calls["A"].strays = 3

\* C25 (the claim as stated): a record finalize_chain persisted is never
\* modified or replaced afterwards, and the chain ids start_chain gave to
\* two requests differ.
C25_PersistedRecordImmutable ==
    [][/\ \A id \in DOMAIN chain_files :
              chain_files[id].valid =>
                  /\ id \in DOMAIN chain_files'
                  /\ chain_files'[id] = chain_files[id]
       /\ (rq_pc'["A"] # "new" /\ rq_pc'["B"] # "new") =>
              log_calls'["A"].id # log_calls'["B"].id]_vars

\* Requests a and b interleaved as start(a), start(b), log_step(a)...,
\* finalize(a), log_step(b)..., finalize(b), at different clock readings:
\* a's steps and finalize went to b's chain, b's steps found no chain.
Interleaved(a, b) ==
    /\ rq_pc[a] = "finished" /\ rq_pc[b] = "finished"
    /\ log_calls[a].id # log_calls[b].id
    /\ log_calls[a].strays = 0 /\ log_calls[b].strays = 0
    /\ Len(log_calls[a].logged) >= 1
    /\ \A i \in 1..Len(log_calls[a].logged) :
           log_calls[a].logged[i].id = log_calls[b].id
    /\ log_calls[a].written = log_calls[b].id
    /\ log_calls[a].outcome = "returned"
    /\ Len(log_calls[b].logged) >= 1
    /\ \A i \in 1..Len(log_calls[b].logged) :
           log_calls[b].logged[i].id = NoChainId

\* C28: after that interleaving the one persisted record carries b's
\* chain id and query with a's steps and a's final decision; b's steps are
\* in no record and no record carries a's chain id.
C28_InterleavedChainsCorrupted ==
    \A a \in Requests :
        LET b == OtherRequest(a) IN
        Interleaved(a, b) =>
            /\ DOMAIN chain_files = {log_calls[b].id}
            /\ chain_files[log_calls[b].id].valid
            /\ chain_files[log_calls[b].id].json.chain_id = log_calls[b].id
            /\ chain_files[log_calls[b].id].json.query = QueryOf(b)
            /\ chain_files[log_calls[b].id].json.steps = StepsOf(a)
            /\ chain_files[log_calls[b].id].json.final_decision = DecisionOf(a)
            /\ log_calls[b].written = NoChainId
            /\ current_chain = <<>>

\* C28 witness: A and B interleaved so, each with one step.
C28_Witness ==
    /\ Interleaved("A", "B")
    /\ Len(chain_files[log_calls["B"].id].json.steps) = 1
    /\ chain_files[log_calls["B"].id].json.query = QueryOf("B")
    /\ chain_files[log_calls["B"].id].json.final_decision = DecisionOf("A")

\* ======================================================================
\* Claim about concurrent CircuitBreaker.call invocations, checked under
\* Spec.
\* ======================================================================

\* A step in which some task's awaited action completes.
CompletionStep == \E t \in Tasks : pc[t] = "awaiting" /\ pc'[t] = "idle"

\* C27 (the claim as stated): the breaker leaves OPEN only by a call
\* attempted after recovery_timeout elapsed, which makes it HALF_OPEN; a
\* call completing while the breaker is OPEN neither changes the state nor
\* last_failure_time.
C27_OpenLeftOnlyThroughHalfOpen ==
    [][state = OPEN =>
          /\ state' \in {OPEN, HALF_OPEN}
          /\ state' = HALF_OPEN => (CallStep /\ ShouldAttemptReset)
          /\ CompletionStep =>
                 (state' = OPEN /\ last_failure_time' = last_failure_time)]_vars

\* ======================================================================
\* Claim about the security RateLimiter, checked under SpecKeyed.
\* ======================================================================

\* Every call made so far on the key was made at the instant of its first
\* use (or the key was never used).
OnlyImmediateCalls(key) ==
    key \in DOMAIN k_first_use => k_clock = k_first_use[key]

\* The key's bucket, if it has one.
BucketOf(f, key) == IF key \in DOMAIN f THEN <<f[key]>> ELSE <<>>

\* C26: each key has its own bucket.  Of the immediate calls on a key the
\* first R are allowed and the next is denied with remaining = 0 and a
\* retry_after; is_allowed on one key leaves every other key's bucket as it
\* was; the allowed calls of a key by time t after its first use are at
\* most R + t * R / T, and 0 <= allowances[key] <= R.
C26_PerKeyBucket ==
    /\ [](\A key \in DOMAIN allowances :
            /\ 0 <= allowances[key] /\ allowances[key] <= KCap
            /\ k_allowed[key] * KOne <= KCap + (k_clock - k_first_use[key]))
    /\ [][\A key \in Keys :
            IsAllowed(key) =>
               /\ OnlyImmediateCalls(key) =>
                     /\ k_last'.allowed <=> k_allowed[key] < k_rate
                     /\ ~k_last'.allowed =>
                            /\ k_last'.remaining = 0
                            /\ k_last'.retry_after # NoValue
                            /\ k_last'.retry_after = KOne
               /\ \A other \in Keys \ {key} :
                     /\ BucketOf(allowances', other) = BucketOf(allowances, other)
                     /\ BucketOf(k_last_check', other) = BucketOf(k_last_check, other)
                     /\ k_allowed'[other] = k_allowed[other]]_vars

\* C26 witness: with rate 2, key k1 was allowed twice and then denied at
\* the instant of its first use, while k2, first used earlier, still has
\* the allowance its own calls left it.
C26_Witness ==
    /\ k_rate = 2
    /\ k_last = [key |-> "k1", allowed |-> FALSE, remaining |-> 0, retry_after |-> KOne]
    /\ k_allowed["k1"] = 2
    /\ "k1" \in DOMAIN k_first_use /\ k_clock = k_first_use["k1"]
    /\ "k2" \in DOMAIN allowances
    /\ k_first_use["k2"] < k_first_use["k1"]
    /\ k_allowed["k2"] = 1
    /\ allowances["k2"] = KCap - KOne

\* ======================================================================
\* Claim about AmbientLLMClient._make_request, checked under SpecAmbient.
\* ======================================================================

\* Steps in which the breaker invocation of task t's request ends: with
\* the failure of its last attempt, with a success, or with a rejection.
RequestExhausted(t) ==
    /\ a_pc[t] = "attempting" /\ a_pc'[t] = "idle"
    /\ stats'.failed = stats.failed + 1

RequestSucceeded(t) ==
    /\ a_pc[t] = "attempting" /\ a_pc'[t] = "idle"
    /\ stats'.succeeded = stats.succeeded + 1

\* C29: the retry loop runs inside one breaker invocation.  A request whose
\* max_retries attempts all fail adds exactly 1 to failure_count; a failed
\* attempt that is retried adds nothing; a request that succeeds on any
\* attempt sets failure_count to 0; no request makes more than max_retries
\* attempts, and a rejected request makes none.
C29_RetriesInsideOneBreakerCall ==
    /\ [](\A t \in Tasks :
            /\ a_attempts[t] <= max_retries
            /\ a_pc[t] # "idle" => pc[t] = "awaiting")
    /\ [][\A t \in Tasks :
            /\ RequestExhausted(t) =>
                   /\ a_attempts[t] = max_retries
                   /\ failure_count' = failure_count + 1
            /\ (a_pc[t] = "attempting" /\ a_pc'[t] = "sleeping") =>
                   failure_count' = failure_count
            /\ RequestSucceeded(t) =>
                   /\ a_attempts[t] \in 1..max_retries
                   /\ failure_count' = 0
            /\ RequestRejected(t) =>
                   /\ a_attempts'[t] = 0
                   /\ a_pc'[t] = "idle" /\ pc'[t] = "idle"
                   /\ stats'.invoked = stats.invoked]_vars

\* C29 witness: with max_retries = 2, five requests in a row made two
\* attempts each and failed, which opened the breaker with failure_count
\* 5, and a sixth request was rejected without an attempt.
C29_Witness ==
    /\ max_retries = 2
    /\ stats = [invoked |-> 5, succeeded |-> 0, failed |-> 5, uncaught |-> 0, rejected |-> 1]
    /\ failure_count = 5
    /\ state = OPEN
    /\ \E t \in Tasks : result[t] = CircuitOpenError /\ a_attempts[t] = 0
    /\ \E t \in Tasks : a_attempts[t] = 2

\* ======================================================================
\* Claims about handle_query and the audit trail, checked under SpecQuery.
\* ======================================================================

\* C24 (the claim as stated): a request whose analysis succeeded, that is
\* whose handler reached finalize_chain, returns the success response,
\* whatever happens while the chain is persisted.
C24_AuditFailureNeverFailsRequest ==
    \A r \in Requests :
        (q_pc[r] = "done" /\ q_response[r].reached \in {"finalize", "end"}) =>
            q_response[r] = SuccessResponse

\* No request other than r is between its start_chain and its response.
NoOtherInFlight(r) ==
    \A o \in Requests \ {r} : q_pc[o] \in {"idle", "done"}

\* C30 (the claim as stated): when handle_query returns a response, on any
\* path, and no other request is in flight, the logger has no active chain
\* and the chain of the request has been persisted.
C30_EveryQueryFinalizesItsChain ==
    [][\A r \in Requests :
          (q_pc[r] # "done" /\ q_pc'[r] = "done" /\ NoOtherInFlight(r)) =>
              /\ current_chain' = <<>>
              /\ q_chain_id[r] \in DOMAIN chain_files'
              /\ chain_files'[q_chain_id[r]].valid
              /\ chain_files'[q_chain_id[r]].json.query = QueryOf(r)]_vars

=============================================================================
